---- MODULE Spec2Model ----
(***************************************************************************)
(* Verification model of the scam-detection AI service (packages/ai).      *)
(*                                                                         *)
(*   SpecQueue, SpecPool                                                   *)
(*              the Redis-backed queue processor (workers/scan_processor)  *)
(*              and the queue/result store it uses (services/redis_service)*)
(*   SpecService                                                           *)
(*              DetectionService.analyze_text with its analysis cache and  *)
(*              its running metrics (services/detection_service)           *)
(*   SpecEnsemble                                                          *)
(*              EnsembleScorer.predict_single over the three detectors and *)
(*              their failure branches (scoring/ensemble_scorer, models/)  *)
(***************************************************************************)
EXTENDS Integers, Sequences, FiniteSets, TLC

(***************************************************************************)
(* Bounds of the model.                                                    *)
(***************************************************************************)
MaxItems == 2       \* producer calls accepted in SpecQueue
MaxStarts == 2      \* calls of ScanProcessor.start() that spawn workers
MaxReqs == 2        \* calls of DetectionService.analyze_text
MaxDraws == 3       \* values taken from the seeded generator
MaxTexts == 11      \* texts of a batch
MaxFeedback == 2    \* calls of ModelManager.add_feedback
MaxChecks == 2      \* passes of the drift detector
MaxMatches == 3     \* pattern matches of a text
MaxWords == 5       \* phrases of a text searched for evidence
MaxSamples == 2     \* items of the validation data of calibrate_thresholds
MaxTicks == 2       \* steps of the clock
Steps == 2          \* detector scores and confidences are k/Steps, k in 0..Steps

(***************************************************************************)
(* Program constants.                                                      *)
(***************************************************************************)
sync_batch_size == 10
status_every == 10
max_samples == 1000
drift_window == 200
min_drift_samples == 50
max_alerts == 50
scan_max_retries == 3
batch_max_retries == 2
MODEL_UPDATE_INTERVAL == 3600

scan_queue == "scan_requests"
batch_queue == "batch_requests"
priority_queue == "priority_requests"
QueueNames == {scan_queue, batch_queue, priority_queue}

VARIABLES
    queues,           \* the three Redis lists, head = most recently pushed
    scan_results,     \* Redis keys scan_result:{request_id}
    batch_status,     \* Redis keys batch:{batch_id}
    is_running,       \* ScanProcessor.is_running
    starts,           \* number of start() calls that spawned tasks
    returned,         \* start() calls whose gather() and finally have run
    workers,          \* the tasks created by start(), by <<start, loop>>
    processed_count,  \* ScanProcessor.processed_count
    error_count,      \* ScanProcessor.error_count
    item_quota,       \* producer calls the environment may still make
    attempts,         \* history: analysis attempts per produced item
    failed_times,     \* history: transitions to Failed per produced item
    handouts,         \* history: dequeues per enqueue instance
    fate,             \* history: last transition per produced item
    last_outcome,     \* history: how the last attempt of an item ended
    cache,            \* Redis keys analysis:{text_hash}, with their expiry
    now,              \* the clock (datetime.now(), Redis expiry), seconds
    performance_metrics,  \* DetectionService.performance_metrics
    reqs,             \* the calls of analyze_text and where they stand
    response,         \* what the call that returned last has returned
    texts,            \* the texts the callers of analyze_text submit
    options,          \* the options the callers of analyze_text pass
    taken,            \* history: the paths the returned calls have taken
    pattern_matches,  \* the matches handed to calculate_risk_score
    risk_analysis,    \* what calculate_risk_score returned for them
    evidence_source,  \* the text handed to _find_evidence_in_text
    evidence_text,    \* the evidence it returned
    validation_data,  \* the scored samples handed to calibrate_thresholds
    optimized_thresholds, \* the thresholds it returned
    models_loaded,    \* EnsembleScorer.models_loaded["bert"]
    model_weights,    \* EnsembleScorer.model_weights
    scorer_pc,        \* where the current call of predict_single stands
    explain,          \* the argument explain of the current call
    model_predictions,    \* the local model_predictions of the current call
    ensemble_result,  \* the EnsembleResult the current call has returned
    success,          \* what the last call of update_weights returned
    weights_input,    \* history: whether its argument was valid
    np_random,        \* numpy's global generator: draws since np.random.seed(42)
    normal_stream,    \* the values np.random.normal(0, 0.05) yields after the seed
    simulated,        \* history: the first simulated prediction of each text
    simulation,       \* what simulate_bert_prediction returned last, and for what
    batch_job,        \* the batch being processed and how far it is
    batch_response,   \* what POST /analyze/batch answered
    batch_poll,       \* what GET /batch/{batch_id} answered last
    accuracy_samples, \* ModelManager.performance_tracking["accuracy_samples"]
    drift_alerts,     \* ModelManager.performance_tracking["drift_alerts"]
    drift_checks,     \* rounds of the drift detector so far
    feedback_calls    \* calls of add_feedback so far

vars == <<queues, scan_results, batch_status, is_running,
          starts, returned, workers, processed_count, error_count,
          item_quota, attempts, failed_times, handouts, fate,
          last_outcome, cache, now, performance_metrics, reqs, response,
          options, taken, pattern_matches, risk_analysis, evidence_source,
          evidence_text, validation_data, optimized_thresholds,
          texts, models_loaded, model_weights, scorer_pc, explain,
          model_predictions, ensemble_result, success, weights_input,
          np_random, normal_stream, simulated, simulation,
          batch_job, batch_response, batch_poll,
          accuracy_samples, drift_alerts, drift_checks, feedback_calls>>

storeVars == <<scan_results, batch_status>>
procVars == <<is_running, starts, returned>>
histVars == <<attempts, failed_times, handouts, fate, last_outcome>>
serviceVars == <<cache, now, performance_metrics, reqs, response, texts,
                 options, taken>>
scorerVars == <<models_loaded, model_weights, scorer_pc, explain,
                model_predictions, ensemble_result>>
weightVars == <<success, weights_input>>
simulatorVars == <<np_random, normal_stream, simulated, simulation>>
batchVars == <<batch_job, batch_response, batch_poll>>
driftVars == <<accuracy_samples, drift_alerts, drift_checks, feedback_calls>>
pureVars == <<pattern_matches, risk_analysis, evidence_source, evidence_text,
              validation_data, optimized_thresholds>>
extraVars == <<weightVars, simulatorVars, batchVars, driftVars, pureVars>>
otherVars == <<serviceVars, scorerVars, extraVars>>
queueVars == <<queues, storeVars, procVars, workers, processed_count,
               error_count, item_quota, histVars>>

(***************************************************************************)
(* Queue items.  request_id 0 stands for an item without request_id (or    *)
(* batch_id); has_text is the truth value of item["text"] (item["texts"]). *)
(* An enqueue instance is identified by <<origin, retry_count>>: every     *)
(* re-enqueue of a produced item carries a larger retry_count.             *)
(***************************************************************************)
Origins == 1..MaxItems
RequestIds == 0..MaxItems
MaxRetryCount == scan_max_retries + 1
Instances == Origins \X (0..MaxRetryCount)

NoTime == -1

NoItem == [origin |-> 0, kind |-> "none", request_id |-> 0, has_text |-> FALSE,
           priority |-> "normal", retry_count |-> 0, last_error |-> "",
           retry_at |-> NoTime]

NoResult == [status |-> "none", error |-> "", origin |-> 0]

Loops == {"priority", "scan", "batch", "cleanup"}
Workers == (1..MaxStarts) \X Loops

QueueOfLoop(l) ==
    CASE l = "priority" -> priority_queue
      [] l = "scan" -> scan_queue
      [] OTHER -> batch_queue

(***************************************************************************)
(* RedisService.  Every command either takes effect (ok) or is refused:    *)
(* the service is not connected, or the Redis call raises; both are caught *)
(* and reported as False/None.                                             *)
(* lpush puts the item at the head of the list, brpop takes the tail.      *)
(***************************************************************************)
LPush_AtTail(q, item) == q \o <<item>>
LPush(q, item) == <<item>> \o q
BRPopItem(q) == q[Len(q)]
BRPopRest_Peek(q) == q
BRPopRest(q) == SubSeq(q, 1, Len(q) - 1)

add_to_queue(qs, name, item, ok) ==
    IF ok THEN [qs EXCEPT ![name] = LPush(@, item)] ELSE qs

set_cache(store, key, value, ok) ==
    IF ok THEN [store EXCEPT ![key] = value] ELSE store

(***************************************************************************)
(* Producers.  The request data is any dictionary: request_id/batch_id may *)
(* be missing and the text may be empty.  A refused add_to_queue returns   *)
(* False to the producer and leaves no item behind.                        *)
(***************************************************************************)
QueueOfItem(item) ==
    IF item.kind = "batch" THEN batch_queue
    ELSE IF item.priority = "high" THEN priority_queue ELSE scan_queue

Produce(item) ==
    /\ item_quota > 0
    /\ queues' = add_to_queue(queues, QueueOfItem(item), item, TRUE)
    /\ item_quota' = item_quota - 1
    /\ fate' = [fate EXCEPT ![item.origin] = "queued"]
    /\ UNCHANGED <<otherVars, storeVars, procVars, workers, processed_count, error_count,
                   attempts, failed_times, handouts, last_outcome>>

add_scan_request ==
    \E rid \in {0, item_quota}, txt \in BOOLEAN, prio \in {"high", "normal"} :
        Produce([origin |-> item_quota, kind |-> "scan", request_id |-> rid,
                 has_text |-> txt, priority |-> prio, retry_count |-> 0,
                 last_error |-> "", retry_at |-> NoTime])

add_batch_request ==
    \E bid \in {0, item_quota}, txt \in BOOLEAN :
        Produce([origin |-> item_quota, kind |-> "batch", request_id |-> bid,
                 has_text |-> txt, priority |-> "normal", retry_count |-> 0,
                 last_error |-> "", retry_at |-> NoTime])

(***************************************************************************)
(* ScanProcessor.start / stop.                                             *)
(***************************************************************************)
start ==
    /\ ~is_running
    /\ starts < MaxStarts
    /\ is_running' = TRUE
    /\ starts' = starts + 1
    /\ workers' = [w \in Workers |->
                     IF w[1] = starts + 1
                     THEN [pc |-> "loop", item |-> NoItem]
                     ELSE workers[w]]
    /\ UNCHANGED <<otherVars, queues, storeVars, returned, processed_count,
                   error_count, item_quota, histVars>>

\* gather() returns once the four tasks of this call have ended; the
\* finally block then clears is_running
start_returns ==
    \E g \in 1..starts :
        /\ g \notin returned
        /\ \A l \in Loops : workers[<<g, l>>].pc = "exited"
        /\ returned' = returned \cup {g}
        /\ is_running' = FALSE
        /\ UNCHANGED <<otherVars, queues, storeVars, starts, workers,
                       processed_count, error_count, item_quota, histVars>>

stop ==
    /\ is_running
    /\ is_running' = FALSE
    /\ UNCHANGED <<otherVars, queues, storeVars, starts, returned, workers,
                   processed_count, error_count, item_quota, histVars>>

(***************************************************************************)
(* The worker loops.                                                       *)
(***************************************************************************)
\* while self.is_running: the loop ends when the flag is found cleared
worker_exit(w) ==
    /\ workers[w].pc = "loop"
    /\ ~is_running
    /\ workers' = [workers EXCEPT ![w].pc = "exited"]
    /\ UNCHANGED <<otherVars, queues, storeVars, procVars, processed_count,
                   error_count, item_quota, histVars>>

\* get_from_queue returned an item; _process_scan_item/_process_batch_item
\* runs up to the call of the detection service.  An item with empty text
\* (empty texts) is logged and abandoned.  (A poll that finds nothing, or
\* that the store refuses, sleeps and changes nothing.)
worker_dequeue(w) ==
    LET name == QueueOfLoop(w[2])
        item == BRPopItem(queues[name])
        inst == <<item.origin, item.retry_count>>
    IN  /\ workers[w].pc = "loop"
        /\ w[2] # "cleanup"
        /\ is_running
        /\ Len(queues[name]) > 0
        /\ queues' = [queues EXCEPT ![name] = BRPopRest(@)]
        /\ handouts' = [handouts EXCEPT ![inst] = @ + 1]
        /\ IF item.has_text
           THEN /\ workers' = [workers EXCEPT ![w] = [pc |-> "busy", item |-> item]]
                /\ attempts' = [attempts EXCEPT ![item.origin] = @ + 1]
                /\ fate' = [fate EXCEPT ![item.origin] = "processing"]
           ELSE /\ fate' = [fate EXCEPT ![item.origin] = "abandoned"]
                /\ UNCHANGED <<workers, attempts>>
        /\ UNCHANGED <<otherVars, storeVars, procVars, processed_count,
                       error_count, item_quota, failed_times, last_outcome>>

\* _store_scan_result / set_batch_status under the id of the item
store_result(item, key, result, ok) ==
    IF item.kind = "batch"
    THEN /\ batch_status' = set_cache(batch_status, key, result, ok)
         /\ UNCHANGED scan_results
    ELSE /\ scan_results' = set_cache(scan_results, key, result, ok)
         /\ UNCHANGED batch_status

\* _handle_scan_retry / _handle_batch_retry
handle_retry(w, error, ok) ==
    LET item == workers[w].item
        max_retries == IF item.kind = "batch" THEN batch_max_retries
                       ELSE scan_max_retries
        minutes == IF item.kind = "batch" THEN (item.retry_count + 1) * 5
                   ELSE item.retry_count + 1
        retried == [item EXCEPT !.retry_count = item.retry_count + 1,
                                !.last_error = error,
                                !.retry_at = now + minutes * 60]
        error_result == [status |-> "failed", error |-> error,
                         origin |-> item.origin]
    IN  IF item.retry_count < max_retries
        THEN /\ queues' = add_to_queue(queues, QueueOfItem(retried), retried, ok)
             /\ fate' = [fate EXCEPT ![item.origin] =
                            IF ok THEN "requeued" ELSE "lost"]
             /\ UNCHANGED <<storeVars, failed_times>>
        ELSE /\ failed_times' = [failed_times EXCEPT ![item.origin] = @ + 1]
             /\ fate' = [fate EXCEPT ![item.origin] = "failed"]
             /\ IF item.request_id # 0
                THEN store_result(item, item.request_id, error_result, ok)
                ELSE UNCHANGED storeVars
             /\ UNCHANGED queues

\* the detection service returned (analyze_text and batch_analyze catch
\* every Exception and return a result whose status tells the outcome), or
\* an Exception reached the handler of _process_scan_item/_process_batch_item.
\* A scan result is stored by the worker under request_id (default
\* "unknown", here 0); a batch status is stored by batch_analyze itself.
\* A batch stands for one text.
worker_finish(w) ==
    LET item == workers[w].item IN
    /\ workers[w].pc = "busy"
    /\ \E outcome \in {"success", "error", "raise"}, ok \in BOOLEAN :
      /\ last_outcome' = [last_outcome EXCEPT ![item.origin] = outcome]
      /\ IF outcome = "raise"
         THEN /\ error_count' = error_count + 1
              /\ handle_retry(w, "err", ok)
              /\ UNCHANGED processed_count
         ELSE LET result == [status |-> IF item.kind = "batch"
                                        THEN (IF outcome = "success"
                                              THEN "completed" ELSE "failed")
                                        ELSE outcome,
                             error |-> IF outcome = "error" THEN "err" ELSE "",
                             origin |-> item.origin]
              IN  /\ store_result(item, item.request_id, result, ok)
                  /\ processed_count' = processed_count + 1
                  /\ fate' = [fate EXCEPT ![item.origin] = "completed"]
                  /\ UNCHANGED <<queues, error_count, failed_times>>
    /\ workers' = [workers EXCEPT ![w] = [pc |-> "loop", item |-> NoItem]]
    /\ UNCHANGED <<otherVars, procVars, item_quota, attempts, handouts>>

(***************************************************************************)
(* SpecQueue: the processor after start() has spawned its four tasks.      *)
(* SpecPool: the processor from construction, with start() and stop(),     *)
(* following one produced item through the pool.                           *)
(***************************************************************************)
(***************************************************************************)
(* DetectionService.analyze_text and the analysis cache.                   *)
(*                                                                         *)
(* A call runs in three steps, cut at the points where the coroutine waits *)
(* for Redis: analyze_start (up to the GET being sent), analyze_lookup     *)
(* (the GET is answered; on a miss the analysis, which never waits, runs   *)
(* and the SET is sent), analyze_store (the SET is answered, the metrics   *)
(* are updated).  A call with use_cache = False never waits and is one     *)
(* step.                                                                   *)
(***************************************************************************)
Texts == {"a", "b"}

\* the clock advances by half the lifetime of a cache entry
TickSeconds == MODEL_UPDATE_INTERVAL \div 2
Fingerprints == {"ca978112ca1bbdca", "3e23e8160039594a"}

\* hashlib.sha256(text.encode()).hexdigest()[:16]
generate_text_hash(text) ==
    IF text = "a" THEN "ca978112ca1bbdca" ELSE "3e23e8160039594a"

ReqIds == 1..MaxReqs

\* the result dictionary of analyze_text; verdict names the call whose
\* analysis computed the scores, explanation and evidence (0: none);
\* explanation tells that the key "explanation" is present, user_context
\* is the value under the key "user_context" ("None": the key is absent)
NoValue == [status |-> "none", risk_level |-> "none", verdict |-> 0,
            explanation |-> FALSE, user_context |-> "None",
            cached_at |-> NoTime, expires_at |-> NoTime,
            retrieved_at |-> NoTime]
Raised == [NoValue EXCEPT !.status = "raised"]

NoEntry == [value |-> NoValue, expiry |-> 0]

\* a call of analyze_text: its arguments, its locals, and what it has seen
\* of the store: observed is how the lookup ended, outcome how its own
\* analysis ended, at_start is the verdict of the unexpired entry for its
\* text, if any, when the call started, refused tells that Redis refused
\* its GET or its SET
IdleReq == [pc |-> "idle", text |-> "a", use_cache |-> FALSE,
            include_explanation |-> TRUE, user_context |-> "None",
            start_time |-> 0, sent |-> NoValue, result |-> NoValue,
            observed |-> "none", outcome |-> "none", at_start |-> 0,
            refused |-> FALSE]
DoneReq == [IdleReq EXCEPT !.pc = "done"]
NoResponse == [req |-> 0, call |-> IdleReq]

\* Redis GET of a key with expiry: the value, or None once it has expired
RedisGet(c, key, t) ==
    IF c[key] # NoEntry /\ t < c[key].expiry THEN c[key].value ELSE NoValue

\* RedisService.get_cache / get_cached_analysis: None when the service is
\* not connected or the GET raises
get_cached_analysis_Raises(c, text_hash, ok, t) ==
    IF ok THEN RedisGet(c, text_hash, t) ELSE Raised
get_cached_analysis_OtherKey(c, text_hash, ok, t) == NoValue
get_cached_analysis(c, text_hash, ok, t) ==
    IF ok THEN RedisGet(c, text_hash, t) ELSE NoValue

\* RedisService.cache_analysis_result / set_cache: the entry as written by
\* the SET (a refused SET returns False, which analyze_text ignores);
\* cached_at and expires_at were put into the value when the SET was sent
cache_analysis_result(c, text_hash, cached_result, expire, ok, t) ==
    IF ok THEN [c EXCEPT ![text_hash] = [value |-> cached_result,
                                         expiry |-> t + expire]]
    ELSE c

\* the value handed to set_cache (redis_service.py, cached_result)
CachedResult(result, expire, t) ==
    [result EXCEPT !.cached_at = t, !.expires_at = t + expire]

\* cached_result["retrieved_at"] = datetime.now().isoformat()
HitResult_Stale(cached_result, t) == cached_result
HitResult(cached_result, t) == [cached_result EXCEPT !.retrieved_at = t]

\* _perform_analysis.  outcome "ok": the ensemble scored the text;
\* "ensemble_error": predict_single failed internally and returned its
\* EnsembleResult with risk_level "error", which is wrapped as a success;
\* "raise": the preprocessor or the explainer raised.  The explanation is
\* added when include_explanation is set, the caller's user_context when
\* one was given.
perform_analysis(r, include_explanation, user_context, outcome) ==
    IF outcome = "raise" THEN Raised
    ELSE [NoValue EXCEPT !.status = "success",
                         !.risk_level = IF outcome = "ok" THEN "scored" ELSE "error",
                         !.verdict = r,
                         !.explanation = include_explanation,
                         !.user_context = user_context]

\* the dictionary returned by the except branch of analyze_text
ErrorResult == [NoValue EXCEPT !.status = "error"]

RECURSIVE GCD(_, _)
GCD(a, b) == IF b = 0 THEN a ELSE GCD(b, a % b)

Rational(num, den) ==
    IF num = 0 THEN [num |-> 0, den |-> 1]
    ELSE [num |-> num \div GCD(num, den), den |-> den \div GCD(num, den)]

\* _update_performance_metrics
update_performance_metrics(pm, processing_time) ==
    LET total_requests == pm.total_requests
        current_avg == pm.avg_response_time
    IN  [pm EXCEPT !.avg_response_time =
            Rational(current_avg.num * (total_requests - 1)
                        + processing_time * current_avg.den,
                     current_avg.den * total_requests)]

InitService ==
    /\ cache = [h \in Fingerprints |-> NoEntry]
    /\ now = 0
    /\ performance_metrics = [total_requests |-> 0, cache_hits |-> 0,
                              cache_misses |-> 0,
                              avg_response_time |-> [num |-> 0, den |-> 1],
                              error_count |-> 0]
    /\ reqs = [r \in ReqIds |-> IdleReq]
    /\ response = NoResponse

\* an unexpired entry of the cache: the call that computed it (0: none)
EntryVerdict(c, text_hash, t) == RedisGet(c, text_hash, t).verdict

Outcomes == {"ok", "ensemble_error", "raise"}

\* History of the calls that have returned, kept when on: how many of them
\* there are, how many found their text in the cache (hit), did not (miss),
\* did not look (bypass), returned the error dictionary (error), and the
\* number and the sum of the response times that went into
\* avg_response_time (those of the calls that ran their own analysis to
\* its end); overlapped tells that a call returned while another was waiting.
\* the default values of the parameters of analyze_text
DefaultOptions == [include_explanation |-> TRUE, user_context |-> "None"]

\* the user_context dictionaries callers pass ("None": no user_context)
Contexts == {"None", "ctx_1", "ctx_2"}
Options == [include_explanation : BOOLEAN, user_context : Contexts]

NoTally == [on |-> FALSE, returned |-> 0, hit |-> 0, miss |-> 0, bypass |-> 0,
            error |-> 0, recorded |-> 0, recorded_time |-> 0, overlapped |-> FALSE]

InFlight(r) == reqs[r].pc \in {"lookup", "store"}

Tally(r, call) ==
    LET own == call.result.status = "success" /\ call.observed \in {"miss", "bypass"}
        One(b) == IF b THEN 1 ELSE 0
    IN  IF ~taken.on THEN taken
        ELSE [taken EXCEPT
                !.returned = @ + 1,
                !.hit = @ + One(call.observed = "hit"),
                !.miss = @ + One(call.observed = "miss"),
                !.bypass = @ + One(call.observed = "bypass"),
                !.error = @ + One(call.result.status = "error"),
                !.recorded = @ + One(own),
                !.recorded_time = @ + (IF own THEN now - call.start_time ELSE 0),
                !.overlapped = @ \/ \E q \in ReqIds \ {r} : InFlight(q)]

\* callers that pass the default options of analyze_text; no history kept
InitCallers ==
    /\ options = {DefaultOptions}
    /\ taken = NoTally

\* analyze_text returns: the call is over, its locals are gone
Return(r, call) ==
    /\ taken' = Tally(r, call)
    /\ reqs' = [reqs EXCEPT ![r] = DoneReq]
    /\ response' = [req |-> r,
                    call |-> [call EXCEPT !.pc = "done", !.start_time = 0,
                                          !.sent = NoValue]]

\* the except branch of analyze_text
ReturnError(r, call) ==
    /\ Return(r, [call EXCEPT !.result = ErrorResult])
    /\ performance_metrics' = [performance_metrics EXCEPT !.error_count = @ + 1]

\* analyze_text without the count of the request
analyze_start_Uncounted(r) ==
    /\ reqs[r].pc = "idle"
    /\ \A q \in ReqIds : q < r => reqs[q].pc # "idle"
    /\ \E text \in texts, use_cache \in BOOLEAN, opt \in options, outcome \in Outcomes :
        LET pm1 == performance_metrics
            call == [IdleReq EXCEPT
                       !.text = text, !.use_cache = use_cache,
                       !.include_explanation = opt.include_explanation,
                       !.user_context = opt.user_context,
                       !.start_time = now,
                       !.at_start = EntryVerdict(cache, generate_text_hash(text), now)]
            result == perform_analysis(r, opt.include_explanation, opt.user_context,
                                       outcome)
        IN  IF use_cache
            THEN /\ outcome = "ok"
                 /\ reqs' = [reqs EXCEPT ![r] = [call EXCEPT !.pc = "lookup"]]
                 /\ performance_metrics' = pm1
                 /\ UNCHANGED <<response, taken>>
            ELSE /\ Return(r, [call EXCEPT !.observed = "bypass",
                                           !.outcome = outcome,
                                           !.result = IF result = Raised
                                                      THEN ErrorResult ELSE result])
                 /\ performance_metrics' =
                        IF result = Raised
                        THEN [pm1 EXCEPT !.error_count = @ + 1]
                        ELSE update_performance_metrics(pm1, 0)
    /\ UNCHANGED <<cache, now, texts, options, queueVars, extraVars, scorerVars>>

\* analyze_text from its entry to the first wait
analyze_start(r) ==
    /\ reqs[r].pc = "idle"
    /\ \A q \in ReqIds : q < r => reqs[q].pc # "idle"
    /\ \E text \in texts, use_cache \in BOOLEAN, opt \in options, outcome \in Outcomes :
        LET pm1 == [performance_metrics EXCEPT !.total_requests = @ + 1]
            call == [IdleReq EXCEPT
                       !.text = text, !.use_cache = use_cache,
                       !.include_explanation = opt.include_explanation,
                       !.user_context = opt.user_context,
                       !.start_time = now,
                       !.at_start = EntryVerdict(cache, generate_text_hash(text), now)]
            result == perform_analysis(r, opt.include_explanation, opt.user_context,
                                       outcome)
        IN  IF use_cache
            THEN /\ outcome = "ok"
                 /\ reqs' = [reqs EXCEPT ![r] = [call EXCEPT !.pc = "lookup"]]
                 /\ performance_metrics' = pm1
                 /\ UNCHANGED <<response, taken>>
            ELSE /\ Return(r, [call EXCEPT !.observed = "bypass",
                                           !.outcome = outcome,
                                           !.result = IF result = Raised
                                                      THEN ErrorResult ELSE result])
                 /\ performance_metrics' =
                        IF result = Raised
                        THEN [pm1 EXCEPT !.error_count = @ + 1]
                        ELSE update_performance_metrics(pm1, 0)
    /\ UNCHANGED <<cache, now, texts, options, queueVars, extraVars, scorerVars>>

analyze_lookup_Uncounted(r) ==
    /\ reqs[r].pc = "lookup"
    /\ \E ok \in BOOLEAN, outcome \in Outcomes :
        LET text_hash == generate_text_hash(reqs[r].text)
            call == [reqs[r] EXCEPT !.refused = ~ok]
            cached_result == get_cached_analysis(cache, text_hash, ok, now)
            result == perform_analysis(r, call.include_explanation, call.user_context,
                                       outcome)
        IN  IF cached_result = Raised
            THEN /\ outcome = "ok"
                 /\ ReturnError(r, [call EXCEPT !.observed = "raised"])
            ELSE IF cached_result # NoValue
            THEN /\ outcome = "ok"
                 /\ performance_metrics' = [performance_metrics EXCEPT !.cache_hits = @ + 1]
                 /\ Return(r, [call EXCEPT !.observed = "hit",
                                           !.result = HitResult(cached_result, now)])
            ELSE IF result = Raised
            THEN /\ performance_metrics' =
                        [performance_metrics EXCEPT !.cache_misses = @ + 1,
                                                    !.error_count = @ + 1]
                 /\ Return(r, [call EXCEPT !.observed = "miss",
                                           !.outcome = outcome,
                                           !.result = ErrorResult])
            ELSE /\ performance_metrics' = performance_metrics
                 /\ reqs' = [reqs EXCEPT ![r] =
                        [call EXCEPT !.pc = "store", !.observed = "miss",
                                     !.outcome = outcome,
                                     !.result = result,
                                     !.sent = CachedResult(result, MODEL_UPDATE_INTERVAL, now)]]
                 /\ UNCHANGED <<response, taken>>
    /\ UNCHANGED <<cache, now, texts, options, queueVars, extraVars, scorerVars>>

\* the GET is answered: cache hit, or miss followed by the analysis
analyze_lookup(r) ==
    /\ reqs[r].pc = "lookup"
    /\ \E ok \in BOOLEAN, outcome \in Outcomes :
        LET text_hash == generate_text_hash(reqs[r].text)
            call == [reqs[r] EXCEPT !.refused = ~ok]
            cached_result == get_cached_analysis(cache, text_hash, ok, now)
            result == perform_analysis(r, call.include_explanation, call.user_context,
                                       outcome)
        IN  IF cached_result = Raised
            THEN /\ outcome = "ok"
                 /\ ReturnError(r, [call EXCEPT !.observed = "raised"])
            ELSE IF cached_result # NoValue
            THEN /\ outcome = "ok"
                 /\ performance_metrics' = [performance_metrics EXCEPT !.cache_hits = @ + 1]
                 /\ Return(r, [call EXCEPT !.observed = "hit",
                                           !.result = HitResult(cached_result, now)])
            ELSE IF result = Raised
            THEN /\ performance_metrics' =
                        [performance_metrics EXCEPT !.cache_misses = @ + 1,
                                                    !.error_count = @ + 1]
                 /\ Return(r, [call EXCEPT !.observed = "miss",
                                           !.outcome = outcome,
                                           !.result = ErrorResult])
            ELSE /\ performance_metrics' = [performance_metrics EXCEPT !.cache_misses = @ + 1]
                 /\ reqs' = [reqs EXCEPT ![r] =
                        [call EXCEPT !.pc = "store", !.observed = "miss",
                                     !.outcome = outcome,
                                     !.result = result,
                                     !.sent = CachedResult(result, MODEL_UPDATE_INTERVAL, now)]]
                 /\ UNCHANGED <<response, taken>>
    /\ UNCHANGED <<cache, now, texts, options, queueVars, extraVars, scorerVars>>

\* the SET is answered; the metrics are updated and the result returned
analyze_store(r) ==
    /\ reqs[r].pc = "store"
    /\ \E ok \in BOOLEAN :
        /\ cache' = cache_analysis_result(cache, generate_text_hash(reqs[r].text),
                                          reqs[r].sent, MODEL_UPDATE_INTERVAL, ok, now)
        /\ Return(r, [reqs[r] EXCEPT !.refused = @ \/ ~ok])
    /\ performance_metrics' =
           update_performance_metrics(performance_metrics, now - reqs[r].start_time)
    /\ UNCHANGED <<now, texts, options, queueVars, extraVars, scorerVars>>

\* time passes; Redis drops the keys whose expiry has come
tick ==
    /\ now < MaxTicks * TickSeconds
    /\ now' = now + TickSeconds
    /\ cache' = [h \in Fingerprints |->
                    IF cache[h] # NoEntry /\ cache[h].expiry <= now + TickSeconds
                    THEN NoEntry ELSE cache[h]]
    /\ UNCHANGED <<performance_metrics, reqs, response, texts, options, taken, queueVars,
                   extraVars, scorerVars>>

(***************************************************************************)
(* EnsembleScorer.predict_single and the detectors it calls.               *)
(*                                                                         *)
(* Scores and confidences are exact fractions, written as integers in      *)
(* units of 1/Den.  What a detector computes from a text is drawn from the *)
(* grid k/Steps within the range the detector's code can return; what it   *)
(* returns when a step inside it raises is the code's except branch.  A    *)
(* call of predict_single runs through its detectors in program order      *)
(* (scorer_pc), then combines.                                             *)
(***************************************************************************)
Den == 20 * Steps
Grid == {k * 20 : k \in 0..Steps}

\* n/100 in units of 1/Den (n a multiple of 5)
Hundredths(n) == (n * Den) \div 100

Min(a, b) == IF a < b THEN a ELSE b
Max(a, b) == IF a > b THEN a ELSE b

\* settings.ENSEMBLE_WEIGHTS, in twentieths
ENSEMBLE_WEIGHTS == [bert |-> 8, pattern |-> 6, sentiment |-> 3, ner |-> 3]

\* EnsembleScorer.risk_thresholds, in hundredths
risk_thresholds == [critical |-> 90, high |-> 70, medium |-> 50, low |-> 30]

\* ModelPrediction; of the metadata, what _generate_explanations reads;
\* failed names the step of the detector that raised ("none": no step did)
\* and clean_confidence is the confidence the detector returns for the same
\* text when no step raises
NoMetadata == [total_matches |-> 0, scam_category |-> FALSE, urgency_level |-> "none"]
ModelPrediction(model_name, score, confidence, metadata, failed, clean_confidence) ==
    [model_name |-> model_name, score |-> score, confidence |-> confidence,
     metadata |-> metadata, failed |-> failed,
     clean_confidence |-> clean_confidence]

\* BERTScamClassifier.predict_single: the label scores of the pipeline, or
\* zeros when the pipeline raises
bert_predict_single(scam_prob, confidence, fault) ==
    IF fault = "classifier"
    THEN [scam_probability |-> 0, confidence |-> 0]
    ELSE [scam_probability |-> scam_prob, confidence |-> confidence]

\* ScamPatternSimulator.simulate_bert_prediction: self.advanced_simulator is
\* assigned nowhere, the attribute access raises, the except branch answers
simulate_bert_prediction ==
    [scam_probability |-> Hundredths(10), confidence |-> Hundredths(50)]

\* ScamPatternMatcher.find_matches: the matches found; a raise inside the
\* loop is swallowed and the matches found so far are returned
NoMatches == [found |-> FALSE, ratio |-> 0, avg_confidence |-> 0,
              scam_category |-> FALSE]
find_matches(matches, fault, kept) ==
    IF fault = "find_matches" /\ ~kept THEN NoMatches ELSE matches

\* ScamPatternMatcher.calculate_risk_score
calculate_risk_score(matches, fault) ==
    IF ~matches.found
    THEN [risk_score |-> Hundredths(10), confidence |-> Hundredths(50)]
    ELSE IF fault = "calculate_risk_score"
    THEN [risk_score |-> Hundredths(50), confidence |-> Hundredths(30)]
    ELSE [risk_score |-> Min(Hundredths(95), matches.ratio),
          confidence |-> Min(Hundredths(95), matches.avg_confidence)]

\* ScamPatternMatcher.analyze_text
pattern_analyze_text(matches, fault, kept) ==
    LET found == find_matches(matches, fault, kept) IN
    IF fault = "analyze_text"
    THEN [risk_analysis |-> [risk_score |-> 0, confidence |-> 0],
          total_matches |-> 0, scam_category |-> FALSE]
    ELSE [risk_analysis |-> calculate_risk_score(found, fault),
          total_matches |-> IF found.found THEN 1 ELSE 0,
          scam_category |-> found.scam_category]

\* SentimentAnalyzer.analyze_urgency
analyze_urgency(urgency_score, fault) ==
    IF fault = "analyze_urgency"
    THEN [urgency_score |-> 0, urgency_level |-> "unknown"]
    ELSE [urgency_score |-> urgency_score,
          urgency_level |-> IF urgency_score >= Hundredths(70) THEN "high"
                            ELSE IF urgency_score >= Hundredths(40) THEN "medium"
                            ELSE IF urgency_score >= Hundredths(10) THEN "low"
                            ELSE "none"]

\* SentimentAnalyzer.analyze_emotional_manipulation
analyze_emotional_manipulation(manipulation_score, fault) ==
    IF fault = "analyze_emotional_manipulation"
    THEN [manipulation_score |-> 0]
    ELSE [manipulation_score |-> manipulation_score]

\* SentimentAnalyzer._calculate_sentiment_risk, polarity in {-1, 0, 1}
calculate_sentiment_risk(polarity, urgency_analysis, manipulation_analysis) ==
    LET sentiment_risk == Max(0, (Den - polarity * Den) \div 2)
        composite_risk == (4 * urgency_analysis.urgency_score
                           + 4 * manipulation_analysis.manipulation_score
                           + 2 * sentiment_risk) \div 10
    IN  Min(Den, Max(0, composite_risk))

\* SentimentAnalyzer.analyze_complete_sentiment
analyze_complete_sentiment(polarity, urgency_score, manipulation_score, fault) ==
    LET urgency_analysis == analyze_urgency(urgency_score, fault)
        manipulation_analysis ==
            analyze_emotional_manipulation(manipulation_score, fault)
    IN  IF fault = "analyze_complete_sentiment"
        THEN [urgency_analysis |-> [urgency_score |-> 0, urgency_level |-> "unknown"],
              manipulation_analysis |-> [manipulation_score |-> 0],
              composite_risk_score |-> 0]
        ELSE [urgency_analysis |-> urgency_analysis,
              manipulation_analysis |-> manipulation_analysis,
              composite_risk_score |->
                  calculate_sentiment_risk(polarity, urgency_analysis,
                                           manipulation_analysis)]

\* a < b, for fractions
Less(a, b) == a.num * b.den < b.num * a.den

RECURSIVE Sum(_, _)
Sum(f, n) == IF n = 0 THEN 0 ELSE f[n] + Sum(f, n - 1)

\* _calculate_ensemble_score with the weighted sum taken over 1 - score
calculate_ensemble_score_Inverted(predictions, weights) ==
    LET n == Len(predictions)
        effective_weight == [i \in 1..n |->
            weights[predictions[i].model_name] * predictions[i].confidence]
        total_weight == Sum(effective_weight, n)
    IN  [final_score |->
            IF total_weight > 0
            THEN Rational(Sum([i \in 1..n |-> (Den - predictions[i].score)
                                                * effective_weight[i]], n),
                          total_weight * Den)
            ELSE Rational(Sum([i \in 1..n |-> predictions[i].score], n), n * Den),
         confidence |-> Rational(1, 10)]

\* _calculate_ensemble_score with the disagreement penalty added
calculate_ensemble_score_Bonus(predictions, weights) ==
    LET n == Len(predictions)
        S == Sum([i \in 1..n |-> predictions[i].confidence], n)
        Q == Sum([i \in 1..n |-> (n * predictions[i].confidence - S)
                                  * (n * predictions[i].confidence - S)], n)
    IN  [final_score |-> Rational(0, 1),
         confidence |->
            Rational(Max(n * n * n * Den * Den,
                         10 * n * n * Den * S
                         + Min(3 * n * n * n * Den * Den, 20 * Q)),
                     10 * n * n * n * Den * Den)]

\* EnsembleScorer._calculate_ensemble_score: (final_score, confidence)
calculate_ensemble_score(predictions, weights) ==
    LET n == Len(predictions)
        effective_weight == [i \in 1..n |->
            weights[predictions[i].model_name] * predictions[i].confidence]
        total_weighted_score ==
            Sum([i \in 1..n |-> predictions[i].score * effective_weight[i]], n)
        total_weight == Sum(effective_weight, n)
        final_score == IF total_weight > 0
                       THEN Rational(total_weighted_score, total_weight * Den)
                       ELSE Rational(Sum([i \in 1..n |-> predictions[i].score], n),
                                     n * Den)
        S == Sum([i \in 1..n |-> predictions[i].confidence], n)
        Q == Sum([i \in 1..n |-> (n * predictions[i].confidence - S)
                                  * (n * predictions[i].confidence - S)], n)
        \* in units of 1 / (10 n^3 Den^2): the mean is 10 n^2 Den S, twice
        \* the variance is 20 Q, 0.3 is 3 n^3 Den^2 and 0.1 is n^3 Den^2
        unit == 10 * n * n * n * Den * Den
        avg_confidence == 10 * n * n * Den * S
        disagreement_penalty == Min(3 * n * n * n * Den * Den, 20 * Q)
        ensemble_confidence ==
            Max(n * n * n * Den * Den, avg_confidence - disagreement_penalty)
    IN  IF n = 0
        THEN [final_score |-> Rational(0, 1), confidence |-> Rational(0, 1)]
        ELSE [final_score |-> final_score,
              confidence |-> Rational(ensemble_confidence, unit)]

\* score >= threshold, the threshold in hundredths
AtLeast(score, hundredths) == score.num * 100 >= hundredths * score.den
Above(score, hundredths) == score.num * 100 > hundredths * score.den

\* EnsembleScorer._determine_risk_level
determine_risk_level(score) ==
    IF AtLeast(score, risk_thresholds.critical) THEN "critical"
    ELSE IF AtLeast(score, risk_thresholds.high) THEN "high"
    ELSE IF AtLeast(score, risk_thresholds.medium) THEN "medium"
    ELSE IF AtLeast(score, risk_thresholds.low) THEN "low"
    ELSE "minimal"

\* EnsembleScorer._generate_explanations: the lines of the explanation, each
\* named by its text
generate_explanations(predictions, final_score) ==
    LET n == Len(predictions)
        significant(i) == 2 * predictions[i].score > Den
        S == Sum([i \in 1..n |-> predictions[i].confidence], n)
    IN  {"Overall risk level"}
        \cup {"AI language model detected scam probability" : i \in
                {j \in 1..n : significant(j) /\ predictions[j].model_name = "bert"}}
        \cup {"Pattern analysis found suspicious indicators" : i \in
                {j \in 1..n : /\ significant(j)
                              /\ predictions[j].model_name = "pattern"
                              /\ predictions[j].metadata.total_matches > 0}}
        \cup {"High urgency/pressure tactics detected" : i \in
                {j \in 1..n : /\ significant(j)
                              /\ predictions[j].model_name = "sentiment"
                              /\ predictions[j].metadata.urgency_level
                                    \in {"high", "medium"}}}
        \cup {"Contains scam or phishing indicators" : i \in
                {j \in 1..n : /\ predictions[j].model_name = "pattern"
                              /\ predictions[j].score > Hundredths(60)
                              /\ predictions[j].metadata.scam_category}}
        \cup (IF 2 * S < n * Den
              THEN {"Low confidence prediction - manual review recommended"}
              ELSE IF Above(final_score, 80) /\ 10 * S > 8 * n * Den
              THEN {"High confidence scam detection - immediate action recommended"}
              ELSE {})

NoEnsembleResult == [final_score |-> Rational(0, 1), risk_level |-> "none",
                     confidence |-> Rational(0, 1), explanation |-> {}]

\* predict_single is called
predict_single ==
    /\ scorer_pc \in {"idle", "returned"}
    /\ \E e \in BOOLEAN : explain' = e
    /\ scorer_pc' = "bert"
    /\ model_predictions' = <<>>
    /\ ensemble_result' = NoEnsembleResult
    /\ UNCHANGED <<models_loaded, model_weights, queueVars, extraVars, serviceVars>>

\* EnsembleScorer._get_bert_prediction
get_bert_prediction ==
    /\ scorer_pc = "bert"
    /\ \E scam_prob \in Grid, confidence \in {c \in Grid : 2 * c >= Den},
          fault \in {"none", "classifier"} :
        LET result == IF models_loaded
                      THEN bert_predict_single(scam_prob, confidence, fault)
                      ELSE simulate_bert_prediction
            failed == IF models_loaded THEN fault ELSE "advanced_simulator"
        IN  /\ ~models_loaded => (scam_prob = 0 /\ confidence = Den /\ fault = "none")
            /\ model_predictions' = Append(model_predictions,
                   ModelPrediction("bert", result.scam_probability,
                                   result.confidence, NoMetadata, failed,
                                   IF failed = "classifier" THEN confidence
                                   ELSE result.confidence))
    /\ scorer_pc' = "pattern"
    /\ UNCHANGED <<models_loaded, model_weights, explain, ensemble_result,
                   queueVars, extraVars, serviceVars>>

\* what find_matches finds in a text: nothing, or matches whose weighted
\* score ratio and mean confidence lie between 0.4 and 1
Matches ==
    {NoMatches} \cup
    {[found |-> TRUE, ratio |-> r, avg_confidence |-> c, scam_category |-> k] :
        r \in {g \in Grid : g >= Hundredths(40)},
        c \in {g \in Grid : g >= Hundredths(40)}, k \in BOOLEAN}

\* EnsembleScorer._get_pattern_prediction
get_pattern_prediction ==
    /\ scorer_pc = "pattern"
    /\ \E matches \in Matches, kept \in BOOLEAN,
          fault \in {"none", "find_matches", "calculate_risk_score", "analyze_text"} :
        LET result == pattern_analyze_text(matches, fault, kept)
            clean == pattern_analyze_text(matches, "none", TRUE)
        IN  /\ fault # "find_matches" => kept
            /\ (fault = "calculate_risk_score" \/ fault = "find_matches")
                  => matches.found
            /\ model_predictions' = Append(model_predictions,
                   ModelPrediction("pattern", result.risk_analysis.risk_score,
                                   result.risk_analysis.confidence,
                                   [NoMetadata EXCEPT
                                       !.total_matches = result.total_matches,
                                       !.scam_category = result.scam_category],
                                   fault, clean.risk_analysis.confidence))
    /\ scorer_pc' = "sentiment"
    /\ UNCHANGED <<models_loaded, model_weights, explain, ensemble_result,
                   queueVars, extraVars, serviceVars>>

\* EnsembleScorer._get_sentiment_prediction
get_sentiment_prediction ==
    /\ scorer_pc = "sentiment"
    /\ \E polarity \in {-1, 0, 1}, urgency_score \in Grid, manipulation_score \in Grid,
          fault \in {"none", "analyze_urgency", "analyze_emotional_manipulation",
                     "analyze_complete_sentiment"} :
        LET result == analyze_complete_sentiment(polarity, urgency_score,
                                                 manipulation_score, fault)
            urgency_conf == result.urgency_analysis.urgency_score
            manip_conf == result.manipulation_analysis.manipulation_score
        IN  model_predictions' = Append(model_predictions,
                ModelPrediction("sentiment", result.composite_risk_score,
                                (urgency_conf + manip_conf) \div 2,
                                [NoMetadata EXCEPT !.urgency_level =
                                    result.urgency_analysis.urgency_level],
                                fault,
                                (urgency_score + manipulation_score) \div 2))
    /\ scorer_pc' = "combine"
    /\ UNCHANGED <<models_loaded, model_weights, explain, ensemble_result,
                   queueVars, extraVars, serviceVars>>

\* predict_single from _calculate_ensemble_score to its return; raised: a
\* step of it raised and the except branch of predict_single answers
predict_single_returns ==
    /\ scorer_pc = "combine"
    /\ \E raised \in BOOLEAN :
        LET combined == calculate_ensemble_score(model_predictions, model_weights)
        IN  ensemble_result' =
               IF raised
               THEN [final_score |-> Rational(0, 1), risk_level |-> "error",
                     confidence |-> Rational(0, 1),
                     explanation |-> {"Prediction failed"}]
               ELSE [final_score |-> combined.final_score,
                     risk_level |-> determine_risk_level(combined.final_score),
                     confidence |-> combined.confidence,
                     explanation |->
                         IF explain
                         THEN generate_explanations(model_predictions,
                                                    combined.final_score)
                         ELSE {}]
    /\ scorer_pc' = "returned"
    /\ UNCHANGED <<models_loaded, model_weights, explain, model_predictions,
                   queueVars, extraVars, serviceVars>>

(***************************************************************************)
(* EnsembleScorer.update_weights.  Weights are whole twentieths; a call    *)
(* names any subset of the four sources and gives each a weight, valid or  *)
(* not.  The calls drawn are those whose normalised weights are whole      *)
(* twentieths again, so that v / total_weight is computed exactly.         *)
(***************************************************************************)
Sources == DOMAIN ENSEMBLE_WEIGHTS

RECURSIVE SumOver(_, _)
SumOver(f, S) ==
    IF S = {} THEN 0
    ELSE LET k == CHOOSE x \in S : TRUE IN f[k] + SumOver(f, S \ {k})

\* all(0 <= weight <= 1 for weight in new_weights.values())
ValidWeights(new_weights) ==
    \A k \in DOMAIN new_weights : 0 <= new_weights[k] /\ new_weights[k] <= 20

\* {k: v/total_weight for k, v in new_weights.items()}
normalized_weights(new_weights) ==
    LET total_weight == SumOver(new_weights, DOMAIN new_weights)
    IN  [k \in DOMAIN new_weights |-> (new_weights[k] * 20) \div total_weight]

\* dict.update: the keys named are overwritten, the others stay
DictUpdate(d, other) ==
    [k \in DOMAIN d \cup DOMAIN other |->
        IF k \in DOMAIN other THEN other[k] ELSE d[k]]

\* the weights a call may give a source: 0, 0.5, 1, and the invalid -0.25
\* and 1.25
WeightValues == {-5, 0, 10, 20, 25}
NewWeights ==
    {nw \in UNION {[S -> WeightValues] : S \in SUBSET Sources} :
        LET total_weight == SumOver(nw, DOMAIN nw)
        IN  (ValidWeights(nw) /\ total_weight > 0)
                => \A k \in DOMAIN nw : (nw[k] * 20) % total_weight = 0}

\* an argument with a weight outside [0, 1] or with total weight 0
InvalidWeights(new_weights) ==
    \/ \E k \in DOMAIN new_weights : new_weights[k] < 0 \/ new_weights[k] > 20
    \/ SumOver(new_weights, DOMAIN new_weights) = 0

\* EnsembleScorer.update_weights: (model_weights afterwards, return value)
update_weights_Unchecked(weights, new_weights) ==
    [model_weights |-> DictUpdate(weights, new_weights), success |-> "True"]
update_weights(weights, new_weights) ==
    IF ValidWeights(new_weights) /\ SumOver(new_weights, DOMAIN new_weights) > 0
    THEN [model_weights |-> DictUpdate(weights, normalized_weights(new_weights)),
          success |-> "True"]
    ELSE [model_weights |-> weights, success |-> "False"]

\* a call of update_weights
update_weights_call ==
    /\ \E new_weights \in NewWeights :
        LET updated == update_weights(model_weights, new_weights)
        IN  /\ model_weights' = updated.model_weights
            /\ success' = updated.success
            /\ weights_input' = IF InvalidWeights(new_weights) THEN "invalid"
                                 ELSE "valid"
    /\ UNCHANGED <<models_loaded, scorer_pc, explain, model_predictions,
                   ensemble_result, queueVars, serviceVars, simulatorVars,
                   batchVars, driftVars, pureVars>>

InitScorer ==
    /\ model_weights = ENSEMBLE_WEIGHTS
    /\ scorer_pc = "idle"
    /\ explain = FALSE
    /\ model_predictions = <<>>
    /\ ensemble_result = NoEnsembleResult
    /\ success = "none"
    /\ weights_input = "none"

(***************************************************************************)
(* ScamModelSimulator (utils/model_simulator.py).  Scores are hundredths.  *)
(* The generator is seeded once, when the simulator is constructed; every  *)
(* later np.random.normal takes the next value of the stream the seed      *)
(* fixes.  Which values that stream holds is drawn at the start and then   *)
(* fixed; np_random counts the values taken.                               *)
(***************************************************************************)
Greeting == "Hello, how are you today?"
Pitch == "guaranteed returns, act now"
SimTexts == {"", Greeting, Pitch}

\* the values of np.random.normal(0, noise_std), noise_std = 0.05
NormalValues == {-5, 0, 5}
Draws == 1..MaxDraws

NoPrediction == [scam_probability |-> -1, confidence |-> -1]
NoSimulation == [text |-> "none", prediction |-> NoPrediction]

\* _combine_scores_neural_style of the base, pattern and context scores of
\* the text: 1 / (1 + exp(-5 (0.2 base + 0.6 pattern + 0.2 context - 0.5))),
\* 0.0953 for the greeting (0.25, 0, 0), 0.6615 for the pitch (0.25, 0.94, 0.1)
combined_score(text) == IF text = Pitch THEN 66 ELSE 10

Clip(x, lo, hi) == Max(lo, Min(hi, x))

\* ScamModelSimulator._empty_prediction
empty_prediction == [scam_probability |-> 1, confidence |-> 95]

\* ScamModelSimulator._add_model_uncertainty, noise the value drawn
add_model_uncertainty(score, noise) ==
    LET final_score == Clip(score + noise, 0, 100)
        distance_from_boundary == IF final_score >= 50 THEN final_score - 50
                                  ELSE 50 - final_score
    IN  [scam_probability |-> final_score,
         confidence |-> Min(95, 50 + distance_from_boundary)]

\* ScamModelSimulator.simulate_bert_prediction
model_simulator_predict(text) ==
    /\ LET short == text = ""
           prediction == IF short THEN empty_prediction
                         ELSE add_model_uncertainty(combined_score(text),
                                                    normal_stream[np_random + 1])
       IN  /\ ~short => np_random < MaxDraws
           /\ np_random' = IF short THEN np_random ELSE np_random + 1
           /\ simulation' = [text |-> text, prediction |-> prediction]
           /\ simulated' = IF simulated[text] = NoPrediction
                           THEN [simulated EXCEPT ![text] = prediction]
                           ELSE simulated
    /\ UNCHANGED <<normal_stream, queueVars, serviceVars, scorerVars, weightVars,
                   batchVars, driftVars, pureVars>>

\* ScamModelSimulator.__init__: initialize_models has seeded the generator
InitSimulator ==
    /\ np_random = 0
    /\ simulated = [t \in SimTexts |-> NoPrediction]
    /\ simulation = NoSimulation

InitSimulatorIdle ==
    /\ InitSimulator
    /\ normal_stream = [k \in Draws |-> 0]

(***************************************************************************)
(* Batches.  One batch, of batch id 1, is followed from its submission:    *)
(* through POST /analyze/batch (path "sync" or "route") or through the     *)
(* batch queue, where a worker hands it to batch_analyze (path "queue").   *)
(* A batch is the number of its texts.                                     *)
(***************************************************************************)
NoJob == [pc |-> "none", path |-> "none", total_items |-> 0, i |-> 0,
          processed_count |-> 0, failed_count |-> 0]
NoAnswer == [status_code |-> 0, status |-> "none", total_items |-> 0,
             processed_items |-> 0, failed_items |-> 0]
BatchSizes == 1..MaxTexts
the_batch == 1

BatchStatus(status, total, processed, failed) ==
    [status |-> status, total_items |-> total, processed_items |-> processed,
     failed_items |-> failed]

\* POST /analyze/batch: analyze_batch
analyze_batch ==
    /\ batch_job.pc = "none"
    /\ \E n \in BatchSizes :
          IF n <= sync_batch_size
          THEN \* predict_batch returns one result for every text
               /\ batch_response' = [status_code |-> 200, status |-> "completed",
                                     total_items |-> n, processed_items |-> n,
                                     failed_items |-> n - n]
               /\ batch_job' = [NoJob EXCEPT !.pc = "done", !.path = "sync",
                                             !.total_items = n]
          ELSE /\ batch_response' = [status_code |-> 200, status |-> "processing",
                                     total_items |-> n, processed_items |-> 0,
                                     failed_items |-> 0]
               /\ batch_job' = [NoJob EXCEPT !.pc = "background", !.path = "route",
                                             !.total_items = n]
    /\ UNCHANGED <<batch_poll, queueVars, serviceVars, scorerVars, weightVars,
                   simulatorVars, driftVars, pureVars>>

\* _process_batch_async: the background task of the route predicts and
\* stores nothing
process_batch_async ==
    /\ batch_job.pc = "background"
    /\ batch_job' = [batch_job EXCEPT !.pc = "done"]
    /\ UNCHANGED <<batch_response, batch_poll, queueVars, serviceVars, scorerVars,
                   weightVars, simulatorVars, driftVars, pureVars>>

\* _process_batch_item calls batch_analyze, which writes the initial status
batch_analyze ==
    /\ batch_job.pc = "none"
    /\ \E n \in BatchSizes, ok \in BOOLEAN :
          /\ batch_job' = [NoJob EXCEPT !.pc = "texts", !.path = "queue",
                                        !.total_items = n]
          /\ batch_status' = set_cache(batch_status, the_batch,
                                       BatchStatus("processing", n, 0, 0), ok)
    /\ UNCHANGED <<batch_response, batch_poll, queues, scan_results, procVars,
                   workers, processed_count, error_count, item_quota, histVars,
                   serviceVars, scorerVars, weightVars, simulatorVars, driftVars,
                   pureVars>>

\* one pass of the loop of batch_analyze over the texts; success is whether
\* analyze_text answered with status "success"
batch_analyze_text ==
    /\ batch_job.pc = "texts"
    /\ batch_job.i < batch_job.total_items
    /\ \E text_ok \in BOOLEAN, ok \in BOOLEAN :
          LET processed == batch_job.processed_count + (IF text_ok THEN 1 ELSE 0)
              failed == batch_job.failed_count + (IF text_ok THEN 0 ELSE 1)
              i == batch_job.i
          IN  /\ batch_job' = [batch_job EXCEPT !.i = i + 1,
                                                !.processed_count = processed,
                                                !.failed_count = failed]
              /\ batch_status' =
                    IF (i + 1) % status_every = 0
                    THEN set_cache(batch_status, the_batch,
                                   BatchStatus("processing", batch_job.total_items,
                                               processed, failed), ok)
                    ELSE batch_status
    /\ UNCHANGED <<batch_response, batch_poll, queues, scan_results, procVars,
                   workers, processed_count, error_count, item_quota, histVars,
                   serviceVars, scorerVars, weightVars, simulatorVars, driftVars,
                   pureVars>>

\* the final status of batch_analyze
batch_analyze_completed ==
    /\ batch_job.pc = "texts"
    /\ batch_job.i = batch_job.total_items
    /\ \E ok \in BOOLEAN :
          batch_status' = set_cache(batch_status, the_batch,
                                    BatchStatus("completed", batch_job.total_items,
                                                batch_job.processed_count,
                                                batch_job.failed_count), ok)
    /\ batch_job' = [batch_job EXCEPT !.pc = "done"]
    /\ UNCHANGED <<batch_response, batch_poll, queues, scan_results, procVars,
                   workers, processed_count, error_count, item_quota, histVars,
                   serviceVars, scorerVars, weightVars, simulatorVars, driftVars,
                   pureVars>>

\* GET /batch/{batch_id}: get_batch_status raises HTTPException 501
get_batch_status ==
    /\ batch_job.pc # "none"
    /\ batch_poll' = [NoAnswer EXCEPT !.status_code = 501]
    /\ UNCHANGED <<batch_job, batch_response, queueVars, serviceVars, scorerVars,
                   weightVars, simulatorVars, driftVars, pureVars>>

InitBatchIdle ==
    /\ batch_job = NoJob
    /\ batch_response = NoAnswer
    /\ batch_poll = NoAnswer

(***************************************************************************)
(* ModelManager: accuracy samples and the drift detector.  A sample is its *)
(* is_correct; an alert carries the number of the check that raised it     *)
(* in place of its timestamp.  Alerts raised before the start have         *)
(* timestamps <= 0.                                                        *)
(***************************************************************************)
\* seq[-n:]
LastOf(seq, n) ==
    IF Len(seq) > n THEN SubSeq(seq, Len(seq) - n + 1, Len(seq)) ELSE seq

\* sum(1 for s in samples if s["is_correct"])
CorrectIn(samples) == Cardinality({k \in DOMAIN samples : samples[k]})

\* ModelManager.add_feedback: predicted_score in hundredths
add_feedback ==
    /\ feedback_calls < MaxFeedback
    /\ \E predicted_score \in {40, 50}, actual_label \in {0, 1} :
          LET is_correct == \/ predicted_score >= 50 /\ actual_label = 1
                            \/ predicted_score < 50 /\ actual_label = 0
          IN  accuracy_samples' =
                  LastOf(Append(accuracy_samples, is_correct), max_samples)
    /\ feedback_calls' = feedback_calls + 1
    /\ UNCHANGED <<drift_alerts, drift_checks, queueVars, serviceVars, scorerVars,
                   weightVars, simulatorVars, batchVars, pureVars>>

\* The pairs <<a, b>> of correct answers among 50 and 50 samples with
\* a/50 - b/50 equal to 1/10 for which the doubles of the program give
\* a/50 - b/50 > 0.1: 40/50 - 35/50 is 0.10000000000000009.  With the
\* sample counts of this model no other difference of 1/10 compares as
\* greater, and every other difference compares as it does exactly.
RoundedAbove ==
    {<<14, 9>>, <<17, 12>>, <<20, 15>>, <<23, 18>>, <<26, 21>>, <<27, 22>>,
     <<28, 23>>, <<34, 29>>, <<40, 35>>, <<46, 41>>}

\* first_accuracy - second_accuracy > 0.1 as the program computes it
drop_exceeds(first_correct, first_len, second_correct, second_len) ==
    LET cross == 10 * (first_correct * second_len - second_correct * first_len)
    IN  IF cross = first_len * second_len
        THEN first_len = 50 /\ second_len = 50
             /\ <<first_correct, second_correct>> \in RoundedAbove
        ELSE cross > first_len * second_len

\* one pass of the loop of ModelManager._drift_detector
drift_detector ==
    /\ drift_checks < MaxChecks
    /\ drift_checks' = drift_checks + 1
    /\ LET recent_samples == LastOf(accuracy_samples, drift_window)
           half_point == Len(recent_samples) \div 2
           first_half == SubSeq(recent_samples, 1, half_point)
           second_half == SubSeq(recent_samples, half_point + 1, Len(recent_samples))
           drift_alert == [timestamp |-> drift_checks + 1,
                           first_half_accuracy |->
                               Rational(CorrectIn(first_half), Len(first_half)),
                           second_half_accuracy |->
                               Rational(CorrectIn(second_half), Len(second_half)),
                           sample_count |-> Len(recent_samples)]
       IN  drift_alerts' =
             IF /\ Len(recent_samples) >= min_drift_samples
                /\ drop_exceeds(CorrectIn(first_half), Len(first_half),
                                CorrectIn(second_half), Len(second_half))
             THEN LastOf(Append(drift_alerts, drift_alert), max_alerts)
             ELSE drift_alerts
    /\ UNCHANGED <<accuracy_samples, feedback_calls, queueVars, serviceVars,
                   scorerVars, weightVars, simulatorVars, batchVars, pureVars>>

NoAnalysis == [risk_score |-> Rational(0, 1), confidence |-> Rational(0, 1),
               risk_level |-> "none"]

InitPatternIdle ==
    /\ pattern_matches = <<>>
    /\ risk_analysis = NoAnalysis

(***************************************************************************)
(* ScamExplainer._find_evidence_in_text.  A text is a sequence of phrases  *)
(* separated by one blank; positions and lengths are counted in            *)
(* characters.  A piece of evidence is its label and the slice             *)
(* text[start:end] it quotes.                                              *)
(***************************************************************************)
Phrases == {"guaranteed returns", "act now", "money", "hello"}
PhraseLen == [p \in Phrases |->
                 CASE p = "guaranteed returns" -> 18
                   [] p = "act now" -> 7
                   [] OTHER -> 5]

\* the phrases of the model that model_config.SCAM_PATTERNS matches, in the
\* order of the list; the urgency keywords and the financial terms among them
SCAM_PATTERNS == <<"guaranteed returns", "act now">>
urgency_keywords == <<"act now">>
financial_terms == <<"money">>

\* len(text) and text_lower.find(phrase): where the first one starts
RECURSIVE LenUpTo(_, _)
LenUpTo(words, k) ==
    IF k = 0 THEN 0 ELSE LenUpTo(words, k - 1) + PhraseLen[words[k]] + 1
TextLen(words) == IF words = <<>> THEN 0 ELSE LenUpTo(words, Len(words)) - 1
Occurrences(words, p) == {k \in 1..Len(words) : words[k] = p}
Find(words, p) ==
    LET first == CHOOSE k \in Occurrences(words, p) :
                     \A j \in Occurrences(words, p) : k <= j
    IN  LenUpTo(words, first - 1)

\* the slice around the first occurrence of the phrase
Context(words, label, p, margin) ==
    [label |-> label,
     start |-> Max(0, Find(words, p) - margin),
     end |-> Min(TextLen(words), Find(words, p) + PhraseLen[p] + margin)]

\* seq[:n]
FirstOf(seq, n) == IF Len(seq) > n THEN SubSeq(seq, 1, n) ELSE seq

\* the loop over SCAM_PATTERNS from the k-th pattern on: one piece for each
\* of the first two matches of a pattern
RECURSIVE pattern_evidence(_, _)
pattern_evidence(words, k) ==
    IF k > Len(SCAM_PATTERNS) THEN <<>>
    ELSE LET p == SCAM_PATTERNS[k]
             found == Min(2, Cardinality(Occurrences(words, p)))
         IN  [i \in 1..found |-> Context(words, "Suspicious phrase", p, 20)]
             \o pattern_evidence(words, k + 1)

RECURSIVE keyword_evidence(_, _, _, _, _)
keyword_evidence(words, keywords, k, label, margin) ==
    IF k > Len(keywords) THEN <<>>
    ELSE (IF Occurrences(words, keywords[k]) # {}
          THEN <<Context(words, label, keywords[k], margin)>> ELSE <<>>)
         \o keyword_evidence(words, keywords, k + 1, label, margin)

find_evidence_in_text(words) ==
    LET urgency_found == keyword_evidence(words, urgency_keywords, 1, "Urgency tactic", 15)
        financial == keyword_evidence(words, financial_terms, 1, "Financial reference", 15)
        evidence == pattern_evidence(words, 1) \o FirstOf(urgency_found, 2)
                    \o FirstOf(financial, 1)
    IN  FirstOf(evidence, 5)

NoEvidence == <<[label |-> "none", start |-> 0, end |-> 0]>>

\* one call of _find_evidence_in_text
find_evidence_call ==
    /\ evidence_text = NoEvidence
    /\ evidence_text' = find_evidence_in_text(evidence_source)
    /\ UNCHANGED <<evidence_source, pattern_matches, risk_analysis, validation_data,
                   optimized_thresholds, queueVars, serviceVars, scorerVars,
                   weightVars, simulatorVars, batchVars, driftVars>>

InitEvidenceIdle ==
    /\ evidence_source = <<>>
    /\ evidence_text = NoEvidence

InitCalibrateIdle ==
    /\ validation_data = <<>>
    /\ optimized_thresholds = [critical |-> 0, high |-> 0, medium |-> 0, low |-> 0]

InitPureIdle ==
    /\ InitPatternIdle
    /\ InitEvidenceIdle
    /\ InitCalibrateIdle

(***************************************************************************)
(* EnsembleScorer.calibrate_thresholds.                                    *)
(*                                                                         *)
(* Scores and thresholds are in hundredths.  An item of the validation     *)
(* data is the final_score predict_batch gives its text and its label.     *)
(* The F1 value of a threshold is kept as an exact fraction:               *)
(* 2*precision*recall / (precision + recall) = 2tp / (2tp + fp + fn) when  *)
(* tp > 0, and 0 otherwise.                                                *)
(***************************************************************************)
\* np.arange(0.1, 0.95, 0.05): 0.10, 0.15, ..., 0.90
Thresholds == [k \in 1..17 |-> 5 + 5 * k]

\* final scores of validation texts; none lies on the grid of thresholds
ValidationScores == {12, 27, 52, 88}
ValidationItems == [score : ValidationScores, label : {0, 1}]

f1_score(data, threshold) ==
    LET prediction(i) == IF data[i].score >= threshold THEN 1 ELSE 0
        tp == Cardinality({i \in DOMAIN data : prediction(i) = 1 /\ data[i].label = 1})
        fp == Cardinality({i \in DOMAIN data : prediction(i) = 1 /\ data[i].label = 0})
        fn == Cardinality({i \in DOMAIN data : prediction(i) = 0 /\ data[i].label = 1})
    IN  IF tp = 0 THEN Rational(0, 1) ELSE Rational(2 * tp, 2 * tp + fp + fn)

\* the loop over the thresholds from the k-th on: the best threshold
RECURSIVE threshold_sweep(_, _, _, _)
threshold_sweep(data, k, best_threshold, best_f1) ==
    IF k > Len(Thresholds) THEN best_threshold
    ELSE LET f1 == f1_score(data, Thresholds[k])
         IN  IF Less(best_f1, f1)
             THEN threshold_sweep(data, k + 1, Thresholds[k], f1)
             ELSE threshold_sweep(data, k + 1, best_threshold, best_f1)

calibrate_thresholds(data) ==
    IF Len(data) = 0 THEN risk_thresholds
    ELSE LET best_threshold == threshold_sweep(data, 1, 50, Rational(0, 1))
         IN  [critical |-> Min(95, best_threshold + 20),
              high |-> best_threshold,
              medium |-> Max(30, best_threshold - 20),
              low |-> Max(10, best_threshold - 40)]

NoThresholds == [critical |-> 0, high |-> 0, medium |-> 0, low |-> 0]

\* one call of calibrate_thresholds; it assigns nothing of the scorer
calibrate_thresholds_call ==
    /\ optimized_thresholds = NoThresholds
    /\ optimized_thresholds' = calibrate_thresholds(validation_data)
    /\ UNCHANGED <<validation_data, evidence_source, evidence_text, pattern_matches,
                   risk_analysis, queueVars, serviceVars, scorerVars,
                   weightVars, simulatorVars, batchVars, driftVars>>

(***************************************************************************)
(* ScamPatternMatcher.calculate_risk_score over a list of matches, in      *)
(* exact fractions.  A match is its risk_level, its confidence and its     *)
(* category.                                                               *)
(***************************************************************************)
Plus(a, b) == Rational(a.num * b.den + b.num * a.den, a.den * b.den)
Times(a, b) == Rational(a.num * b.num, a.den * b.den)
Over(a, b) == Rational(a.num * b.den, a.den * b.num)
Smaller(a, b) == IF Less(b, a) THEN b ELSE a

RiskLevels == {"critical", "high", "medium", "low"}
Categories == {"investment_scams", "phishing_scams"}

\* find_matches: base_confidence, raised by 0.05 for every further hit of
\* the pattern and capped at 0.95
match_confidence(risk_level, match_count) ==
    LET base_confidence == [critical |-> Rational(9, 10), high |-> Rational(8, 10),
                            medium |-> Rational(6, 10), low |-> Rational(4, 10)]
    IN  Smaller(Rational(95, 100),
                Plus(base_confidence[risk_level], Rational(5 * (match_count - 1), 100)))

PatternMatch ==
    {[risk_level |-> l, confidence |-> match_confidence(l, c), category |-> g] :
        l \in RiskLevels, c \in {1, 2}, g \in Categories}

risk_weights == [critical |-> Rational(10, 10), high |-> Rational(8, 10),
                 medium |-> Rational(6, 10), low |-> Rational(4, 10)]

\* the loop of calculate_risk_score over matches[k..]
RECURSIVE risk_loop(_, _, _, _, _)
risk_loop(matches, k, total_weight, total_score, category_multipliers) ==
    IF k > Len(matches)
    THEN [total_weight |-> total_weight, total_score |-> total_score,
          category_multipliers |-> category_multipliers]
    ELSE LET match == matches[k]
             weight == risk_weights[match.risk_level]
             score == Times(match.confidence, weight)
             multipliers ==
                 IF match.category \notin DOMAIN category_multipliers
                 THEN DictUpdate(category_multipliers,
                                 [c \in {match.category} |-> Rational(1, 1)])
                 ELSE [category_multipliers EXCEPT
                          ![match.category] = Times(@, Rational(8, 10))]
             effective_weight == Times(weight, multipliers[match.category])
         IN  risk_loop(matches, k + 1, Plus(total_weight, effective_weight),
                       Plus(total_score, Times(score, multipliers[match.category])),
                       multipliers)

\* the loop without the diminishing returns of a category
RECURSIVE risk_loop_Flat(_, _, _, _, _)
risk_loop_Flat(matches, k, total_weight, total_score, category_multipliers) ==
    IF k > Len(matches)
    THEN [total_weight |-> total_weight, total_score |-> total_score,
          category_multipliers |-> category_multipliers]
    ELSE LET match == matches[k]
             weight == risk_weights[match.risk_level]
             score == Times(match.confidence, weight)
             multipliers == DictUpdate(category_multipliers,
                                       [c \in {match.category} |-> Rational(1, 1)])
         IN  risk_loop_Flat(matches, k + 1, Plus(total_weight, weight),
                            Plus(total_score, score), multipliers)

calculate_risk_score_Flat(matches) ==
    LET sums == risk_loop_Flat(matches, 1, Rational(0, 1), Rational(0, 1), <<>>)
    IN  [risk_score |-> IF Len(matches) = 0 THEN Rational(1, 10)
                        ELSE Smaller(Rational(95, 100),
                                     Over(sums.total_score, sums.total_weight)),
         confidence |-> Rational(1, 2), risk_level |-> "low"]

\* ScamPatternMatcher.calculate_risk_score: risk_score, confidence and
\* risk_level of the dictionary returned
calculate_risk_score_matches(matches) ==
    IF Len(matches) = 0
    THEN [risk_score |-> Rational(1, 10), confidence |-> Rational(1, 2),
          risk_level |-> "low"]
    ELSE IF \E k \in 1..Len(matches) : matches[k].risk_level \notin DOMAIN risk_weights
    THEN [risk_score |-> Rational(5, 10), confidence |-> Rational(3, 10),
          risk_level |-> "unknown"]
    ELSE LET sums == risk_loop(matches, 1, Rational(0, 1), Rational(0, 1), <<>>)
             risk_score == IF sums.total_weight.num > 0
                           THEN Smaller(Rational(95, 100),
                                        Over(sums.total_score, sums.total_weight))
                           ELSE Rational(1, 10)
             n == Len(matches)
             confidence_sum == Sum([k \in 1..n |-> matches[k].confidence.num
                                       * (100 \div matches[k].confidence.den)], n)
             avg_confidence == Rational(confidence_sum, 100 * n)
             match_diversity == Cardinality({matches[k].category : k \in 1..n})
             confidence == Smaller(Rational(95, 100),
                                   Times(avg_confidence, Rational(10 + match_diversity, 10)))
         IN  [risk_score |-> risk_score, confidence |-> confidence,
              risk_level |-> IF ~Less(risk_score, Rational(8, 10)) THEN "critical"
                             ELSE IF ~Less(risk_score, Rational(6, 10)) THEN "high"
                             ELSE IF ~Less(risk_score, Rational(4, 10)) THEN "medium"
                             ELSE "low"]

\* one call of calculate_risk_score
calculate_risk_score_call ==
    /\ risk_analysis = NoAnalysis
    /\ risk_analysis' = calculate_risk_score_matches(pattern_matches)
    /\ UNCHANGED <<pattern_matches, evidence_source, evidence_text, validation_data,
                   optimized_thresholds, queueVars, serviceVars, scorerVars,
                   weightVars, simulatorVars, batchVars, driftVars>>

InitDriftIdle ==
    /\ InitPureIdle
    /\ accuracy_samples = <<>>
    /\ drift_alerts = <<>>
    /\ drift_checks = 0
    /\ feedback_calls = 0

InitQueueStore ==
    /\ queues = [n \in QueueNames |-> <<>>]
    /\ scan_results = [k \in RequestIds |-> NoResult]
    /\ batch_status = [k \in RequestIds |-> NoResult]
    /\ processed_count = 0
    /\ error_count = 0
    /\ attempts = [o \in Origins |-> 0]
    /\ failed_times = [o \in Origins |-> 0]
    /\ handouts = [i \in Instances |-> 0]
    /\ fate = [o \in Origins |-> "none"]
    /\ last_outcome = [o \in Origins |-> "none"]

InitProcessorIdle ==
    /\ is_running = FALSE
    /\ starts = 0
    /\ returned = {}
    /\ workers = [w \in Workers |-> [pc |-> "unborn", item |-> NoItem]]
    /\ item_quota = 0

InitStores ==
    /\ InitQueueStore
    /\ InitService
    /\ InitCallers
    /\ InitSimulatorIdle
    /\ InitBatchIdle
    /\ InitDriftIdle

InitStore ==
    /\ InitStores
    /\ InitScorer

InitQueue ==
    /\ InitStore
    /\ is_running = TRUE
    /\ starts = 1
    /\ returned = {}
    /\ workers = [w \in Workers |->
                    IF w[1] = 1 THEN [pc |-> "loop", item |-> NoItem]
                    ELSE [pc |-> "unborn", item |-> NoItem]]
    /\ item_quota = MaxItems
    /\ texts = {}
    /\ models_loaded = FALSE

NextQueue ==
    \/ add_scan_request
    \/ add_batch_request
    \/ \E w \in Workers : worker_dequeue(w)
    \/ \E w \in Workers : worker_finish(w)

SpecQueue == InitQueue /\ [][NextQueue]_vars

\* SpecRetry: one item, the worker loops and the clock
InitRetry ==
    /\ InitStore
    /\ is_running = TRUE
    /\ starts = 1
    /\ returned = {}
    /\ workers = [w \in Workers |->
                    IF w[1] = 1 THEN [pc |-> "loop", item |-> NoItem]
                    ELSE [pc |-> "unborn", item |-> NoItem]]
    /\ item_quota = 1
    /\ texts = {}
    /\ models_loaded = FALSE

NextRetry ==
    \/ add_scan_request
    \/ add_batch_request
    \/ \E w \in Workers : worker_dequeue(w)
    \/ \E w \in Workers : worker_finish(w)
    \/ tick

SpecRetry == InitRetry /\ [][NextRetry]_vars

InitPool ==
    /\ InitStore
    /\ is_running = FALSE
    /\ starts = 0
    /\ returned = {}
    /\ workers = [w \in Workers |-> [pc |-> "unborn", item |-> NoItem]]
    /\ item_quota = 1
    /\ texts = {}
    /\ models_loaded = FALSE

NextPool ==
    \/ add_scan_request
    \/ add_batch_request
    \/ \E w \in Workers : worker_dequeue(w)
    \/ \E w \in Workers : worker_finish(w)
    \/ start
    \/ start_returns
    \/ stop
    \/ \E w \in Workers : worker_exit(w)

SpecPool == InitPool /\ [][NextPool]_vars

InitAnalyze ==
    /\ InitStore
    /\ is_running = FALSE
    /\ starts = 0
    /\ returned = {}
    /\ workers = [w \in Workers |-> [pc |-> "unborn", item |-> NoItem]]
    /\ item_quota = 0
    /\ texts \in {{t} : t \in Texts}
    /\ models_loaded = FALSE

NextService ==
    \/ \E r \in ReqIds : analyze_start(r)
    \/ \E r \in ReqIds : analyze_lookup(r)
    \/ \E r \in ReqIds : analyze_store(r)
    \/ tick

SpecService == InitAnalyze /\ [][NextService]_vars

\* SpecMetrics: the calls of analyze_text with the history of their paths
InitMetrics ==
    /\ InitQueueStore
    /\ InitProcessorIdle
    /\ InitService
    /\ InitScorer
    /\ InitSimulatorIdle
    /\ InitBatchIdle
    /\ InitDriftIdle
    /\ texts \in {{t} : t \in Texts}
    /\ models_loaded = FALSE
    /\ options = {DefaultOptions}
    /\ taken = [NoTally EXCEPT !.on = TRUE]

SpecMetrics == InitMetrics /\ [][NextService]_vars

\* SpecOptions: the calls of analyze_text by callers that choose
\* include_explanation and pass a user_context of their own
InitOptions ==
    /\ InitQueueStore
    /\ InitProcessorIdle
    /\ InitService
    /\ InitScorer
    /\ InitSimulatorIdle
    /\ InitBatchIdle
    /\ InitDriftIdle
    /\ texts \in {{t} : t \in Texts}
    /\ models_loaded = FALSE
    /\ options = Options
    /\ taken = NoTally

SpecOptions == InitOptions /\ [][NextService]_vars

InitEnsemble ==
    /\ InitStore
    /\ is_running = FALSE
    /\ starts = 0
    /\ returned = {}
    /\ workers = [w \in Workers |-> [pc |-> "unborn", item |-> NoItem]]
    /\ item_quota = 0
    /\ texts = {}
    /\ models_loaded \in BOOLEAN

NextEnsemble ==
    \/ predict_single
    \/ get_bert_prediction
    \/ get_pattern_prediction
    \/ get_sentiment_prediction
    \/ predict_single_returns

SpecEnsemble == InitEnsemble /\ [][NextEnsemble]_vars

\* SpecCombine: _calculate_ensemble_score applied by predict_single to any
\* three predictions, under the default weights or the weights a call of
\* update_weights that names all four sources leaves
PredictionLists ==
    {<<ModelPrediction("bert", s1, c1, NoMetadata, "none", c1),
       ModelPrediction("pattern", s2, c2, NoMetadata, "none", c2),
       ModelPrediction("sentiment", s3, c3, NoMetadata, "none", c3)>> :
        s1 \in Grid, c1 \in Grid, s2 \in Grid, c2 \in Grid,
        s3 \in Grid, c3 \in Grid}

WeightTables ==
    {[model_weights |-> ENSEMBLE_WEIGHTS, success |-> "none"]}
    \cup {update_weights(ENSEMBLE_WEIGHTS, nw) :
            nw \in {w \in NewWeights : DOMAIN w = Sources /\ ~InvalidWeights(w)}}

InitCombine ==
    /\ InitStores
    /\ is_running = FALSE
    /\ starts = 0
    /\ returned = {}
    /\ workers = [w \in Workers |-> [pc |-> "unborn", item |-> NoItem]]
    /\ item_quota = 0
    /\ texts = {}
    /\ models_loaded = FALSE
    /\ \E updated \in WeightTables :
        /\ model_weights = updated.model_weights
        /\ success = updated.success
        /\ weights_input = IF updated.success = "none" THEN "none" ELSE "valid"
    /\ scorer_pc = "combine"
    /\ explain = FALSE
    /\ model_predictions \in PredictionLists
    /\ ensemble_result = NoEnsembleResult

NextCombine == predict_single_returns

SpecCombine == InitCombine /\ [][NextCombine]_vars

\* SpecSimulator: calls of model_simulator.simulate_bert_prediction
InitSimulation ==
    /\ InitQueueStore
    /\ InitProcessorIdle
    /\ InitService
    /\ InitCallers
    /\ texts = {}
    /\ InitScorer
    /\ models_loaded = FALSE
    /\ InitBatchIdle
    /\ InitDriftIdle
    /\ InitSimulator
    /\ normal_stream \in [Draws -> NormalValues]

NextSimulator == \E text \in SimTexts : model_simulator_predict(text)

SpecSimulator == InitSimulation /\ [][NextSimulator]_vars

\* SpecBatch: one batch from its submission on, polled at any time.  The
\* event loop runs every task that can run, and the client goes on polling.
InitBatch ==
    /\ InitQueueStore
    /\ InitProcessorIdle
    /\ InitService
    /\ InitCallers
    /\ texts = {}
    /\ InitScorer
    /\ models_loaded = FALSE
    /\ InitSimulatorIdle
    /\ InitBatchIdle
    /\ InitDriftIdle

NextBatch ==
    \/ analyze_batch
    \/ process_batch_async
    \/ batch_analyze
    \/ batch_analyze_text
    \/ batch_analyze_completed
    \/ get_batch_status

SpecBatch == InitBatch /\ [][NextBatch]_vars /\ WF_vars(NextBatch)

\* SpecDrift: feedback and drift checks.  The manager has run before: it
\* holds samples (a correct ones then the wrong ones of the first half, then
\* b correct ones and the wrong ones of the second half) and alerts.
Samples(first_len, a, second_len, b) ==
    [k \in 1..(first_len + second_len) |->
        IF k <= first_len THEN k <= a ELSE k - first_len <= b]

SampleLists ==
    {Samples(24, 24, 25, 0), Samples(25, 25, 25, 0), Samples(25, 20, 25, 20),
     Samples(50, 40, 50, 35), Samples(50, 40, 50, 34), Samples(50, 41, 50, 36),
     Samples(50, 40, 50, 40), Samples(500, 500, 500, 500)}

OldAlerts(n) ==
    [k \in 1..n |-> [timestamp |-> k - n, first_half_accuracy |-> Rational(1, 1),
                     second_half_accuracy |-> Rational(1, 2), sample_count |-> 50]]

InitDrift ==
    /\ InitQueueStore
    /\ InitProcessorIdle
    /\ InitService
    /\ InitCallers
    /\ texts = {}
    /\ InitScorer
    /\ models_loaded = FALSE
    /\ InitSimulatorIdle
    /\ InitBatchIdle
    /\ InitPureIdle
    /\ accuracy_samples \in SampleLists
    /\ drift_alerts \in {OldAlerts(n) : n \in {0, max_alerts - 1, max_alerts}}
    /\ drift_checks = 0
    /\ feedback_calls = 0

NextDrift ==
    \/ add_feedback
    \/ drift_detector

SpecDrift == InitDrift /\ [][NextDrift]_vars

\* SpecPattern: calculate_risk_score applied to any list of matches
MatchLists == UNION {[1..n -> PatternMatch] : n \in 0..MaxMatches}

InitPattern ==
    /\ InitQueueStore
    /\ InitProcessorIdle
    /\ InitService
    /\ InitCallers
    /\ texts = {}
    /\ InitScorer
    /\ models_loaded = FALSE
    /\ InitSimulatorIdle
    /\ InitBatchIdle
    /\ accuracy_samples = <<>>
    /\ drift_alerts = <<>>
    /\ drift_checks = 0
    /\ feedback_calls = 0
    /\ InitEvidenceIdle
    /\ InitCalibrateIdle
    /\ pattern_matches \in MatchLists
    /\ risk_analysis = NoAnalysis

NextPattern == calculate_risk_score_call

SpecPattern == InitPattern /\ [][NextPattern]_vars

\* SpecEvidence: _find_evidence_in_text applied to any text of the phrases
InitEvidence ==
    /\ InitQueueStore
    /\ InitProcessorIdle
    /\ InitService
    /\ InitCallers
    /\ texts = {}
    /\ InitScorer
    /\ models_loaded = FALSE
    /\ InitSimulatorIdle
    /\ InitBatchIdle
    /\ accuracy_samples = <<>>
    /\ drift_alerts = <<>>
    /\ drift_checks = 0
    /\ feedback_calls = 0
    /\ InitPatternIdle
    /\ InitCalibrateIdle
    /\ evidence_source \in UNION {[1..n -> Phrases] : n \in 0..MaxWords}
    /\ evidence_text = NoEvidence

NextEvidence == find_evidence_call

SpecEvidence == InitEvidence /\ [][NextEvidence]_vars

\* SpecCalibrate: calibrate_thresholds applied to validation data
InitCalibrate ==
    /\ InitQueueStore
    /\ InitProcessorIdle
    /\ InitService
    /\ InitCallers
    /\ texts = {}
    /\ InitScorer
    /\ models_loaded = FALSE
    /\ InitSimulatorIdle
    /\ InitBatchIdle
    /\ accuracy_samples = <<>>
    /\ drift_alerts = <<>>
    /\ drift_checks = 0
    /\ feedback_calls = 0
    /\ InitPatternIdle
    /\ InitEvidenceIdle
    /\ validation_data \in UNION {[1..n -> ValidationItems] : n \in 0..MaxSamples}
    /\ optimized_thresholds = NoThresholds

NextCalibrate == calibrate_thresholds_call

SpecCalibrate == InitCalibrate /\ [][NextCalibrate]_vars

\* SpecWeights: the scorer under calls of update_weights
InitWeights ==
    /\ InitEnsemble
    /\ models_loaded = FALSE

NextWeights == update_weights_call

SpecWeights == InitWeights /\ [][NextWeights]_vars

(***************************************************************************)
(* Properties of the queue processor.                                      *)
(***************************************************************************)
MaxRetriesOf(item) ==
    IF item.kind = "batch" THEN batch_max_retries ELSE scan_max_retries

QueuedItems == UNION {{queues[n][i] : i \in 1..Len(queues[n])} : n \in QueueNames}
HeldItems == {workers[w].item : w \in {v \in Workers : workers[v].pc = "busy"}}

\* a result of produced item o is stored under some key of the store
StoredFor(o, status) ==
    \E k \in RequestIds :
        \/ scan_results[k].origin = o /\ scan_results[k].status = status
        \/ batch_status[k].origin = o /\ batch_status[k].status = status

\* C1: an item whose processing fails on every attempt is attempted at most
\* max_retries+1 times, its retry_count never exceeds max_retries, and it
\* then becomes Failed exactly once, with a stored failure result that
\* carries a non-empty error.  (Stated as the claim reads; the code violates
\* it: the item is lost when the re-enqueue is refused, and nothing is stored
\* for an item without id or when the store refuses the write.)
C1_Claim ==
    /\ \A item \in QueuedItems \cup HeldItems :
          /\ item.retry_count <= MaxRetriesOf(item)
          /\ attempts[item.origin] <= MaxRetriesOf(item) + 1
    /\ \A o \in Origins :
          /\ failed_times[o] <= 1
          /\ fate[o] # "lost"
          /\ fate[o] = "failed" =>
                \E k \in RequestIds \ {0} :
                    \/ scan_results[k] = [status |-> "failed", error |-> "err", origin |-> o]
                    \/ batch_status[k] = [status |-> "failed", error |-> "err", origin |-> o]

\* C2: when the analysis of a dequeued item with retry_count < max_retries
\* fails (the detection service reports an error, or an exception reaches
\* the worker), the item is re-enqueued with retry_count + 1 and last_error
\* set, and is not recorded as completed.  (Stated as the claim reads; the
\* code stores the error result of analyze_text as the item's result and
\* counts the item as processed.)
C2_Claim ==
    [][\A w \in Workers :
         LET item == workers[w].item IN
         (/\ workers[w].pc = "busy"
          /\ workers'[w].pc # "busy"
          /\ last_outcome'[item.origin] \in {"error", "raise"}
          /\ item.retry_count < MaxRetriesOf(item))
         => /\ fate'[item.origin] # "completed"
            /\ processed_count' = processed_count
            /\ \E i \in 1..Len(queues'[QueueOfItem(item)]) :
                 LET again == queues'[QueueOfItem(item)][i] IN
                 /\ again.origin = item.origin
                 /\ again.retry_count = item.retry_count + 1
                 /\ again.last_error # ""]_vars

\* C3: every dequeued item reaches a terminal outcome that is stored: no
\* item has left the queues and the workers without a stored result.
\* (Stated as the claim reads; the code abandons items with empty text,
\* loses items whose re-enqueue is refused and stores nothing for a failed
\* item without request id.)
C3_Claim ==
    \A o \in Origins :
        /\ fate[o] \notin {"abandoned", "lost"}
        /\ fate[o] = "completed" => (StoredFor(o, "success") \/ StoredFor(o, "error")
                                     \/ StoredFor(o, "completed") \/ StoredFor(o, "failed"))
        /\ fate[o] = "failed" => StoredFor(o, "failed")

\* C4: an enqueue instance is handed to at most one worker: it is dequeued
\* at most once, it is never in a queue twice or in a queue and with a
\* worker, and no two workers hold the same instance
InstanceOf(item) == <<item.origin, item.retry_count>>

C4_SingleOwner ==
    /\ \A i \in Instances : handouts[i] <= 1
    /\ \A w1, w2 \in Workers :
          (w1 # w2 /\ workers[w1].pc = "busy" /\ workers[w2].pc = "busy")
          => InstanceOf(workers[w1].item) # InstanceOf(workers[w2].item)
    /\ \A n1, n2 \in QueueNames : \A i1 \in 1..Len(queues[n1]), i2 \in 1..Len(queues[n2]) :
          (n1 # n2 \/ i1 # i2)
          => InstanceOf(queues[n1][i1]) # InstanceOf(queues[n2][i2])
    /\ \A item \in QueuedItems, held \in HeldItems :
          InstanceOf(item) # InstanceOf(held)

\* two workers of different start() calls poll the same queue, one of them
\* holds an item that was retried before
C4_Witness ==
    \E w1, w2 \in Workers :
        /\ w1 # w2
        /\ w1[2] = w2[2]
        /\ workers[w1].pc = "busy"
        /\ workers[w2].pc = "loop"
        /\ workers[w1].item.retry_count > 0
        /\ handouts[<<workers[w1].item.origin, 0>>] = 1

(***************************************************************************)
(* Properties of analyze_text and the analysis cache.                      *)
(***************************************************************************)
\* the call r as it stands after a step: returned, or still in progress
After(r) == IF reqs'[r].pc = "done" THEN response'.call ELSE reqs'[r]

\* the step in which the GET of call r is answered
LookupStep(r) == reqs[r].pc = "lookup" /\ reqs'[r].pc # "lookup"

\* the step in which the SET of call r is answered
StoreStep(r) == reqs[r].pc = "store" /\ reqs'[r].pc = "done"

\* the entry stored for the text of call r (expired entries are gone)
EntryOf(r) == cache[generate_text_hash(reqs[r].text)]

\* C5, as the claim states it: a call that uses the cache, that Redis does
\* not refuse, and that starts while an unexpired entry for its text is
\* stored, runs no detector and returns the verdict of that entry.
C5_StartedAfterWrite ==
    (/\ response.req # 0
     /\ response.call.use_cache
     /\ ~response.call.refused
     /\ response.call.at_start # 0)
    => /\ response.call.observed = "hit"
       /\ response.call.result.verdict = response.call.at_start

\* C5, amended: a call that uses the cache and whose GET is answered (not
\* refused) while an unexpired entry for its text is stored returns at once
\* with the verdict of the entry stored at that moment and runs no detector;
\* so the detectors run only in a call that bypasses the cache, or whose GET
\* found no unexpired entry or was refused.
C5_HitAtLookup ==
    [][\A r \in ReqIds :
          (LookupStep(r) /\ ~After(r).refused /\ EntryOf(r) # NoEntry)
          => /\ After(r).pc = "done"
             /\ After(r).observed = "hit"
             /\ After(r).outcome = "none"
             /\ After(r).result.verdict = EntryOf(r).value.verdict]_vars

\* two calls were in progress at once for one text; the second started
\* before any entry was stored and got the verdict the first stored
C5_Witness ==
    /\ response.req = 2
    /\ response.call.observed = "hit"
    /\ response.call.at_start = 0
    /\ response.call.result.verdict = 1

\* C6: a cache hit returns the stored value with retrieved_at set to the
\* time of the hit and nothing else changed, runs no detector, and leaves
\* the cache (value, cached_at, expires_at, expiry) as it was.
C6_HitFrame ==
    [][\A r \in ReqIds :
          (LookupStep(r) /\ After(r).observed = "hit")
          => /\ cache' = cache
             /\ EntryOf(r) # NoEntry
             /\ After(r).result = [EntryOf(r).value EXCEPT !.retrieved_at = now]
             /\ After(r).result.retrieved_at # NoTime
             /\ After(r).outcome = "none"]_vars

\* a hit later than the write: retrieved_at is newer than cached_at
C6_Witness ==
    /\ response.req # 0
    /\ response.call.observed = "hit"
    /\ response.call.result.retrieved_at > response.call.result.cached_at
    /\ cache[generate_text_hash(response.call.text)] # NoEntry
    /\ cache[generate_text_hash(response.call.text)].value.cached_at
          = response.call.result.cached_at

\* C7: every entry of the cache holds the result of a successful analysis:
\* its status is success and its risk level is not "error"; and only a call
\* that missed the cache writes an entry.
C7_OnlySuccessCached ==
    /\ \A h \in Fingerprints :
          cache[h] # NoEntry => /\ cache[h].value.status = "success"
                                /\ cache[h].value.risk_level # "error"
    /\ \A r \in ReqIds : reqs[r].pc = "store" => reqs[r].observed = "miss"

\* C8: when Redis refuses the GET, the call runs the analysis, and when it
\* refuses the GET or the SET the call returns the success result of its own
\* analysis, unless that analysis itself raised; the refusal does not
\* increment error_count, which grows only with a call whose analysis raised.
C8_StoreFailureTolerated ==
    [][/\ \A r \in ReqIds :
            (LookupStep(r) /\ After(r).refused)
            => /\ After(r).observed = "miss"
               /\ After(r).outcome # "none"
               /\ After(r).outcome # "raise"
                  => /\ After(r).pc = "store"
                     /\ After(r).result.status = "success"
                     /\ After(r).result.verdict = r
                     /\ performance_metrics'.error_count
                           = performance_metrics.error_count
       /\ \A r \in ReqIds :
            (StoreStep(r) /\ After(r).refused)
            => /\ After(r).result.status = "success"
               /\ After(r).result.verdict = r
               /\ performance_metrics'.error_count = performance_metrics.error_count
       /\ performance_metrics'.error_count # performance_metrics.error_count
            => /\ response'.call.outcome = "raise"
               /\ response'.call.result = ErrorResult
               /\ performance_metrics'.error_count
                     = performance_metrics.error_count + 1]_vars

\* Redis refused both the GET and the SET of a call, which returned its own
\* success verdict, and no error was counted
C8_Witness ==
    /\ response.req # 0
    /\ response.call.use_cache
    /\ response.call.refused
    /\ response.call.observed = "miss"
    /\ response.call.result.status = "success"
    /\ response.call.result.verdict = response.req
    /\ cache[generate_text_hash(response.call.text)] = NoEntry
    /\ performance_metrics.error_count = 0

(***************************************************************************)
(* Properties of the ensemble scorer and its detectors.                    *)
(***************************************************************************)
FailedPredictions ==
    {i \in 1..Len(model_predictions) : model_predictions[i].failed # "none"}

\* the predictions as the detectors return them when no step raises
CleanPredictions ==
    [i \in 1..Len(model_predictions) |->
        [model_predictions[i] EXCEPT
            !.confidence = model_predictions[i].clean_confidence]]

\* the line of an explanation that tells of a weakened analysis
DegradedLines == {"Low confidence prediction - manual review recommended"}

\* exactly one detector raised inside, one that also has a fault-free run,
\* and predict_single has returned its result
OneDetectorFailed(i) ==
    /\ scorer_pc = "returned"
    /\ ensemble_result.risk_level # "error"
    /\ FailedPredictions = {i}
    /\ model_predictions[i].failed # "advanced_simulator"

\* C9: when exactly one detector raises inside, predict_single returns a
\* verdict in which that detector's prediction has score 0 and confidence 0,
\* the confidence is lower than the confidence of the fault-free run, and the
\* explanation, when one is asked for, has the line that tells of it.
C9_Claim ==
    \A i \in 1..Len(model_predictions) :
        OneDetectorFailed(i)
        => /\ model_predictions[i].score = 0
           /\ model_predictions[i].confidence = 0
           /\ Less(ensemble_result.confidence,
                   calculate_ensemble_score(CleanPredictions, model_weights).confidence)
           /\ explain => ensemble_result.explanation \cap DegradedLines # {}

\* C10: a detector in which a step raised returns confidence 0.
C10_Claim ==
    \A i \in 1..Len(model_predictions) :
        model_predictions[i].failed # "none" => model_predictions[i].confidence = 0

\* the tier the threshold table of the specification gives a score
TableTier(score) ==
    CHOOSE t \in {"critical", "high", "medium", "low", "minimal"} :
        /\ t = "critical" <=> AtLeast(score, 90)
        /\ t = "high" <=> (AtLeast(score, 70) /\ ~AtLeast(score, 90))
        /\ t = "medium" <=> (AtLeast(score, 50) /\ ~AtLeast(score, 70))
        /\ t = "low" <=> (AtLeast(score, 30) /\ ~AtLeast(score, 50))
        /\ t = "minimal" <=> ~AtLeast(score, 30)

\* C11: every verdict predict_single returns has a final score between 0 and
\* 1 and the risk level the threshold table gives that score (critical from
\* 0.9, high from 0.7, medium from 0.5, low from 0.3, minimal below); no
\* other risk level is returned.
C11_Claim ==
    scorer_pc = "returned"
    => /\ AtLeast(ensemble_result.final_score, 0)
       /\ ~Above(ensemble_result.final_score, 100)
       /\ ensemble_result.risk_level = TableTier(ensemble_result.final_score)

\* the predictions with the score of the i-th one set to score
WithScore(predictions, i, score) ==
    [predictions EXCEPT ![i].score = score]

\* the predictions with the confidences c (and the clean confidences too)
WithConfidences(predictions, c) ==
    [i \in 1..Len(predictions) |->
        [predictions[i] EXCEPT !.confidence = c[i], !.clean_confidence = c[i]]]

\* predict_single has combined the predictions and returned its verdict
Combined == scorer_pc = "returned" /\ ensemble_result.risk_level # "error"

\* C12: raising the score of any one prediction, the other scores, all
\* confidences and the weights being the same, never lowers the final score.
C12_Monotone ==
    Combined
    => \A i \in 1..Len(model_predictions) :
         \A score \in {g \in Grid : g > model_predictions[i].score} :
            ~Less(calculate_ensemble_score(
                      WithScore(model_predictions, i, score),
                      model_weights).final_score,
                  ensemble_result.final_score)

C12_Witness ==
    /\ Combined
    /\ model_weights # ENSEMBLE_WEIGHTS
    /\ \E i \in 1..Len(model_predictions) :
         \E score \in {g \in Grid : g > model_predictions[i].score} :
            Less(ensemble_result.final_score,
                 calculate_ensemble_score(
                     WithScore(model_predictions, i, score),
                     model_weights).final_score)

\* sum and sum of squares of fractions with the common denominator Den
MeanOf(c) == Rational(Sum(c, Len(c)), Len(c) * Den)
VarianceOf(c) ==
    LET n == Len(c)
        S == Sum(c, n)
    IN  Rational(Sum([i \in 1..n |-> (n * c[i] - S) * (n * c[i] - S)], n),
                 n * n * n * Den * Den)

\* mean - min(0.3, 2 x variance), floored at 0.1
ClaimedConfidence(c) ==
    LET m == MeanOf(c)
        v == VarianceOf(c)
        penalty == IF Less(Rational(3, 10), Rational(2 * v.num, v.den))
                   THEN Rational(3, 10) ELSE Rational(2 * v.num, v.den)
        lowered == Rational(m.num * penalty.den - penalty.num * m.den,
                            m.den * penalty.den)
    IN  IF Less(lowered, Rational(1, 10)) THEN Rational(1, 10) ELSE lowered

ConfidencesOf(predictions) ==
    [i \in 1..Len(predictions) |-> predictions[i].confidence]

\* C13: the ensemble confidence is mean(confidence_i) minus
\* min(0.3, 2 x variance(confidence_i)), floored at 0.1; of two lists of
\* confidences with the same mean, the one with the larger variance never
\* yields the larger ensemble confidence.
C13_Confidence ==
    Combined
    => /\ ensemble_result.confidence
              = ClaimedConfidence(ConfidencesOf(model_predictions))
       /\ \A c \in [1..Len(model_predictions) -> Grid] :
            (/\ MeanOf(c) = MeanOf(ConfidencesOf(model_predictions))
             /\ Less(VarianceOf(ConfidencesOf(model_predictions)), VarianceOf(c)))
            => ~Less(ensemble_result.confidence,
                     calculate_ensemble_score(
                         WithConfidences(model_predictions, c),
                         model_weights).confidence)

C13_Witness ==
    /\ Combined
    /\ \E c \in [1..Len(model_predictions) -> Grid] :
         /\ MeanOf(c) = MeanOf(ConfidencesOf(model_predictions))
         /\ Less(VarianceOf(ConfidencesOf(model_predictions)), VarianceOf(c))
         /\ Less(calculate_ensemble_score(
                     WithConfidences(model_predictions, c),
                     model_weights).confidence,
                 ensemble_result.confidence)

\* C14: after every call of update_weights that returned True, the weights
\* of bert, pattern, sentiment and ner sum to 1.
C14_Claim ==
    success = "True" => SumOver(model_weights, Sources) = 20

\* C15: a call of update_weights whose argument has a weight outside [0, 1]
\* or a total weight of 0 returns False and leaves the weights as they were.
C15_RejectedAtomically ==
    [][weights_input' = "invalid"
          => (success' = "False" /\ model_weights' = model_weights)]_vars

C15_Witness ==
    /\ weights_input = "invalid"
    /\ success = "False"
    /\ model_weights # ENSEMBLE_WEIGHTS

\* C16: two predictions of the simulator for the same text have the same
\* score and the same confidence, however many predictions were made before
\* or between them.
C16_Claim ==
    simulation.text # "none"
    => simulation.prediction = simulated[simulation.text]

\* C17: a batch processed asynchronously is eventually reported by a poll
\* of its batch id as completed, with processed_items + failed_items =
\* total_items = the number of its texts.
C17_Claim ==
    batch_job.path \in {"route", "queue"}
    ~> /\ batch_poll.status = "completed"
       /\ batch_poll.total_items = batch_job.total_items
       /\ batch_poll.processed_items + batch_poll.failed_items = batch_poll.total_items

\* C18: at each drift check an alert is appended exactly when the accuracy
\* of the first half of the recent samples exceeds that of the second half
\* by more than 0.10; the alert list changes only by appending, holds at
\* most 50 alerts, and drops its oldest alerts when it would hold more.
RecentSamples == LastOf(accuracy_samples, drift_window)
FirstHalf == SubSeq(RecentSamples, 1, Len(RecentSamples) \div 2)
SecondHalf == SubSeq(RecentSamples, Len(RecentSamples) \div 2 + 1, Len(RecentSamples))
DroppedMoreThanTenth ==
    /\ Len(FirstHalf) > 0
    /\ 10 * (CorrectIn(FirstHalf) * Len(SecondHalf) - CorrectIn(SecondHalf) * Len(FirstHalf))
         > Len(FirstHalf) * Len(SecondHalf)
AlertAppended ==
    /\ drift_alerts' # <<>>
    /\ drift_alerts'[Len(drift_alerts')].timestamp = drift_checks'
    /\ \/ /\ Len(drift_alerts) < 50
          /\ SubSeq(drift_alerts', 1, Len(drift_alerts') - 1) = drift_alerts
       \/ /\ Len(drift_alerts) = 50
          /\ Len(drift_alerts') = 50
          /\ SubSeq(drift_alerts', 1, 49) = SubSeq(drift_alerts, 2, 50)
C18_Claim ==
    [][drift_checks' = drift_checks + 1
        => /\ DroppedMoreThanTenth => AlertAppended
           /\ ~DroppedMoreThanTenth => drift_alerts' = drift_alerts
           /\ Len(drift_alerts') <= 50]_vars

\* C19: at any time at most one worker loop per queue (priority, normal,
\* batch) is active, whatever start() and stop() calls have been made.
C19_Claim ==
    \A l \in {"priority", "scan", "batch"} :
        Cardinality({g \in 1..MaxStarts : workers[<<g, l>>].pc \in {"loop", "busy"}}) <= 1

\* C20: the processing attempt of a retried item never starts before its
\* retry delay (retry_count x 1 minute for a scan item, retry_count x 5
\* minutes for a batch item) has passed since the failed attempt; retry_at
\* is the time of the failed attempt plus that delay.
C20_Claim ==
    \A w \in Workers :
        (workers[w].pc = "busy" /\ workers[w].item.retry_count > 0)
        => now >= workers[w].item.retry_at

\* C21: once all analyze requests have returned, total_requests counts
\* them all, and cache_hits, cache_misses and error_count count the requests
\* that took the hit, the miss and the error path, however the requests
\* overlapped.
AllReturned == \A r \in ReqIds : ~InFlight(r)
C21_NoLostIncrement ==
    (taken.on /\ AllReturned)
    => /\ performance_metrics.total_requests = taken.returned
       /\ performance_metrics.cache_hits = taken.hit
       /\ performance_metrics.cache_misses = taken.miss
       /\ performance_metrics.error_count = taken.error
C21_Witness ==
    /\ AllReturned
    /\ taken.overlapped
    /\ taken.returned = MaxReqs
    /\ taken.hit > 0
    /\ taken.miss > 0

\* C22: avg_response_time is the arithmetic mean of the response times
\* that were recorded into it.
C22_Claim ==
    (taken.on /\ taken.recorded > 0)
    => performance_metrics.avg_response_time = Rational(taken.recorded_time, taken.recorded)

\* the weighted mean of the claim: sum(score x weight x confidence) over
\* sum(weight x confidence), the plain mean of the scores when that sum is 0
ClaimedScore(predictions, weights) ==
    LET n == Len(predictions)
        wc == [i \in 1..n |-> weights[predictions[i].model_name] * predictions[i].confidence]
    IN  IF Sum(wc, n) > 0
        THEN Rational(Sum([i \in 1..n |-> predictions[i].score * wc[i]], n), Sum(wc, n) * Den)
        ELSE Rational(Sum([i \in 1..n |-> predictions[i].score], n), n * Den)

Without(predictions, i) ==
    [k \in 1..(Len(predictions) - 1) |-> IF k < i THEN predictions[k] ELSE predictions[k + 1]]

\* C23: final_score is the confidence-weighted mean of the scores, the plain
\* mean when the weights x confidences sum to 0; a prediction with
\* confidence 0 has no influence on final_score (the score is the one the
\* other predictions give alone) unless every prediction has confidence 0.
C23_Claim ==
    Combined
    => /\ ensemble_result.final_score = ClaimedScore(model_predictions, model_weights)
       /\ \A i \in 1..Len(model_predictions) :
            (/\ model_predictions[i].confidence = 0
             /\ \E j \in 1..Len(model_predictions) : model_predictions[j].confidence > 0)
            => ensemble_result.final_score
                 = ClaimedScore(Without(model_predictions, i), model_weights)

\* the multiplier of the claim for the k-th match: 0.8 to the power of the
\* number of earlier matches of its category, with the common factor
\* 5^(n-1) taken out
RECURSIVE Power(_, _)
Power(b, e) == IF e = 0 THEN 1 ELSE b * Power(b, e - 1)
Earlier(matches, k) ==
    Cardinality({j \in 1..(k - 1) : matches[j].category = matches[k].category})
ScaledMultiplier(matches, k) ==
    Power(4, Earlier(matches, k)) * Power(5, Len(matches) - 1 - Earlier(matches, k))
TierTenths == [critical |-> 10, high |-> 8, medium |-> 6, low |-> 4]
ClaimedRisk(matches) ==
    LET n == Len(matches)
        ww == [k \in 1..n |-> TierTenths[matches[k].risk_level] * ScaledMultiplier(matches, k)]
        cw == [k \in 1..n |-> matches[k].confidence.num * (100 \div matches[k].confidence.den) * ww[k]]
        ratio == Rational(Sum(cw, n), 100 * Sum(ww, n))
    IN  IF Less(Rational(95, 100), ratio) THEN Rational(95, 100) ELSE ratio

\* C24: the pattern risk score is sum(confidence x tier weight x category
\* multiplier) / sum(tier weight x category multiplier), the multiplier
\* being 1 for the first match of a category and 0.8 times the previous one
\* for each further match, capped at 0.95; without matches it is 0.1 with
\* confidence 0.5.
C24_RiskScore ==
    risk_analysis # NoAnalysis
    => IF pattern_matches = <<>>
       THEN /\ risk_analysis.risk_score = Rational(1, 10)
            /\ risk_analysis.confidence = Rational(1, 2)
       ELSE risk_analysis.risk_score = ClaimedRisk(pattern_matches)
C24_Witness ==
    /\ risk_analysis # NoAnalysis
    /\ Len(pattern_matches) = 3
    /\ pattern_matches[1].category = pattern_matches[3].category
    /\ pattern_matches[1].category # pattern_matches[2].category
    /\ pattern_matches[1].confidence # pattern_matches[3].confidence
    /\ risk_analysis.risk_score # calculate_risk_score_Flat(pattern_matches).risk_score

\* C25: the evidence list holds at most 5 entries and no entry twice.
C25_Claim ==
    evidence_text # NoEvidence
    => /\ Len(evidence_text) <= 5
       /\ \A i, j \in 1..Len(evidence_text) : i # j => evidence_text[i] # evidence_text[j]

\* C26: a successful result returned by analyze_text carries no
\* user_context other than the one its own request supplied (a cached
\* result never hands one caller's user_context to another caller).
C26_Claim ==
    (response.req # 0 /\ response.call.result.status = "success")
        => response.call.result.user_context \in {"None", response.call.user_context}

\* C27: a successful result returned by analyze_text, computed or served
\* from the cache, contains an explanation exactly when its request asked
\* for one with include_explanation.
C27_Claim ==
    (response.req # 0 /\ response.call.result.status = "success")
        => response.call.result.explanation = response.call.include_explanation

\* C28: the thresholds calibrate_thresholds returns are ordered
\* critical >= high >= medium >= low, whichever threshold of the sweep
\* was the best (the scorer's own risk_thresholds are never assigned).
C28_Claim ==
    optimized_thresholds # NoThresholds
        => /\ optimized_thresholds.critical >= optimized_thresholds.high
           /\ optimized_thresholds.high >= optimized_thresholds.medium
           /\ optimized_thresholds.medium >= optimized_thresholds.low

RoutedQueue(item) ==
    IF item.kind = "batch" THEN batch_queue
    ELSE IF item.kind = "scan" /\ item.priority = "high" THEN priority_queue
    ELSE scan_queue

C30_StableRouting ==
    [][\A name \in DOMAIN queues :
          LET before == queues[name]
              after == queues'[name]
          IN  /\ \A i \in 1..Len(after) : RoutedQueue(after[i]) = name
              /\ Len(after) > Len(before) =>
                    /\ after = <<after[1]>> \o before
                    /\ after[1].retry_count > 0 =>
                          \E w \in Workers :
                              /\ workers[w].item = [after[1] EXCEPT
                                     !.retry_count = @ - 1,
                                     !.last_error = workers[w].item.last_error,
                                     !.retry_at = workers[w].item.retry_at]
                              /\ QueueOfLoop(w[2]) = name
              /\ Len(after) < Len(before) =>
                    after = SubSeq(before, 1, Len(before) - 1)]_vars

\* a retried item waits behind an item that was waiting before it came back
C30_Witness ==
    \E name \in DOMAIN queues :
        /\ Len(queues[name]) >= 2
        /\ queues[name][1].retry_count > 0
        /\ queues[name][2].retry_count = 0

TypeQueue ==
    /\ is_running \in BOOLEAN
    /\ item_quota \in 0..MaxItems
====
